---- MODULE Spec2Model ----
(***************************************************************************)
(* Model of the Lucid appointment-booking chatbot: the conversation state  *)
(* machine (appointment_service.py), the context store (context_manager.py)*)
(* and the turn handler (chatbot.py).                                      *)
(*                                                                         *)
(* Text is modelled as a sequence of one-character strings so that         *)
(* lower(), title() and substring containment are computed as Python       *)
(* computes them.  An Optional value is <<>> (None) or <<v>>.              *)
(***************************************************************************)
EXTENDS Integers, Sequences, FiniteSets, TLC

VARIABLES contexts, contextFiles, historyFiles, appointmentsFile, now,
          recorderCalls, turns, arrivals, persisted, fromFile,
          call, returned, ioFault, escaped, reply, threads

vars == <<contexts, contextFiles, historyFiles, appointmentsFile, now,
          recorderCalls, turns, arrivals, persisted, fromFile,
          call, returned, ioFault, escaped, reply, threads>>

\* ------------------------------------------------------------------------
\* Bounds of the model
\* ------------------------------------------------------------------------
MaxTurns == 2
MaxNow == 1
MaxAppends == 60

\* ------------------------------------------------------------------------
\* Python values
\* ------------------------------------------------------------------------
None == <<>>

Some(v) == <<v>>

IsSome(o) == o # <<>>

Get(o) == o[1]

\* ------------------------------------------------------------------------
\* str.lower(), str.title() and the `in` operator on strings
\* ------------------------------------------------------------------------
UpperChars == <<"A", "B", "C", "D", "E", "F", "G", "H", "I", "J", "K", "L", "M", "N", "O", "P", "Q", "R", "S", "T", "U", "V", "W", "X", "Y", "Z">>

LowerChars == <<"a", "b", "c", "d", "e", "f", "g", "h", "i", "j", "k", "l", "m", "n", "o", "p", "q", "r", "s", "t", "u", "v", "w", "x", "y", "z">>

ToLower == [c \in {UpperChars[i] : i \in 1..26} |-> LowerChars[CHOOSE i \in 1..26 : UpperChars[i] = c]]

ToUpper == [c \in {LowerChars[i] : i \in 1..26} |-> UpperChars[CHOOSE i \in 1..26 : LowerChars[i] = c]]

IsAlpha(c) == c \in DOMAIN ToLower \/ c \in DOMAIN ToUpper

LowerChar(c) == IF c \in DOMAIN ToLower THEN ToLower[c] ELSE c

UpperChar(c) == IF c \in DOMAIN ToUpper THEN ToUpper[c] ELSE c

Lower(s) == [i \in 1..Len(s) |-> LowerChar(s[i])]

\* the first letter of every run of letters in upper case, the rest lower
Title(s) == [i \in 1..Len(s) |-> IF i = 1 \/ ~IsAlpha(s[i-1]) THEN UpperChar(s[i]) ELSE LowerChar(s[i])]

\* sub in s
Contains(sub, s) ==
  LET needle == sub
      text == s
  IN \E i \in 0..(Len(text) - Len(needle)) : \A j \in 1..Len(needle) : text[i + j] = needle[j]

\* ------------------------------------------------------------------------
\* models.py: ConversationState
\* ------------------------------------------------------------------------
ConversationState == {"INITIAL", "WAITING_LOCATION", "WAITING_CENTER_SELECTION", "WAITING_TIME_SLOT", "CONFIRMING_APPOINTMENT", "COMPLETED"}

StateValue(st) == CASE st = "INITIAL" -> "initial"
                    [] st = "WAITING_LOCATION" -> "waiting_location"
                    [] st = "WAITING_CENTER_SELECTION" -> "waiting_center_selection"
                    [] st = "WAITING_TIME_SLOT" -> "waiting_time_slot"
                    [] st = "CONFIRMING_APPOINTMENT" -> "confirming_appointment"
                    [] st = "COMPLETED" -> "completed"

\* ConversationState(value): the member with that value, None when the
\* lookup raises ValueError
StateFromValue(v) == IF \E st \in ConversationState : StateValue(st) = v THEN Some(CHOOSE st \in ConversationState : StateValue(st) = v) ELSE None

\* ------------------------------------------------------------------------
\* models.py: static catalogs
\* ------------------------------------------------------------------------
ServiceCenter(name, city, address, phone) == [name |-> name, city |-> city, address |-> address, phone |-> phone]

TimeSlot(time, date) == [time |-> time, date |-> date, available |-> TRUE]

CityKeys == << <<"r", "i", "y", "a", "d", "h">>, <<"j", "e", "d", "d", "a", "h">>, <<"d", "a", "m", "m", "a", "m">>, <<"m", "a", "k", "k", "a", "h">>, <<"m", "e", "d", "i", "n", "a">>, <<"t", "a", "i", "f">>, <<"a", "b", "h", "a">>, <<"t", "a", "b", "u", "k">>, <<"j", "a", "z", "a", "n">>, <<"h", "a", "i", "l">>, <<"a", "l", "-", "a", "h", "s", "a">>, <<"k", "h", "a", "m", "i", "s", "-", "m", "u", "s", "h", "a", "i", "t">> >>

SERVICE_CENTERS == <<
  << ServiceCenter(<<"L", "u", "c", "i", "d", " ", "S", "e", "r", "v", "i", "c", "e", " ", "C", "e", "n", "t", "e", "r", " ", "-", " ", "R", "i", "y", "a", "d", "h", " ", "D", "o", "w", "n", "t", "o", "w", "n">>, <<"R", "i", "y", "a", "d", "h">>, "King Fahd Road, Riyadh 12345", "+966-11-123-4567"),
     ServiceCenter(<<"L", "u", "c", "i", "d", " ", "S", "e", "r", "v", "i", "c", "e", " ", "C", "e", "n", "t", "e", "r", " ", "-", " ", "R", "i", "y", "a", "d", "h", " ", "N", "o", "r", "t", "h">>, <<"R", "i", "y", "a", "d", "h">>, "Olaya Street, Riyadh 12346", "+966-11-123-4568"),
     ServiceCenter(<<"L", "u", "c", "i", "d", " ", "S", "e", "r", "v", "i", "c", "e", " ", "C", "e", "n", "t", "e", "r", " ", "-", " ", "R", "i", "y", "a", "d", "h", " ", "E", "a", "s", "t">>, <<"R", "i", "y", "a", "d", "h">>, "King Abdullah Road, Riyadh 12347", "+966-11-123-4569") >>,
  << ServiceCenter(<<"L", "u", "c", "i", "d", " ", "S", "e", "r", "v", "i", "c", "e", " ", "C", "e", "n", "t", "e", "r", " ", "-", " ", "J", "e", "d", "d", "a", "h">>, <<"J", "e", "d", "d", "a", "h">>, "Tahlia Street, Jeddah 21414", "+966-12-234-5678"),
     ServiceCenter(<<"L", "u", "c", "i", "d", " ", "S", "e", "r", "v", "i", "c", "e", " ", "C", "e", "n", "t", "e", "r", " ", "-", " ", "J", "e", "d", "d", "a", "h", " ", "N", "o", "r", "t", "h">>, <<"J", "e", "d", "d", "a", "h">>, "King Abdulaziz Road, Jeddah 21415", "+966-12-234-5679") >>,
  << ServiceCenter(<<"L", "u", "c", "i", "d", " ", "S", "e", "r", "v", "i", "c", "e", " ", "C", "e", "n", "t", "e", "r", " ", "-", " ", "D", "a", "m", "m", "a", "m">>, <<"D", "a", "m", "m", "a", "m">>, "King Saud Road, Dammam 31411", "+966-13-345-6789"),
     ServiceCenter(<<"L", "u", "c", "i", "d", " ", "S", "e", "r", "v", "i", "c", "e", " ", "C", "e", "n", "t", "e", "r", " ", "-", " ", "D", "a", "m", "m", "a", "m", " ", "W", "e", "s", "t">>, <<"D", "a", "m", "m", "a", "m">>, "King Fahd Road, Dammam 31412", "+966-13-345-6790") >>,
  << ServiceCenter(<<"L", "u", "c", "i", "d", " ", "S", "e", "r", "v", "i", "c", "e", " ", "C", "e", "n", "t", "e", "r", " ", "-", " ", "M", "a", "k", "k", "a", "h">>, <<"M", "a", "k", "k", "a", "h">>, "King Abdulaziz Road, Makkah 21955", "+966-12-345-6789") >>,
  << ServiceCenter(<<"L", "u", "c", "i", "d", " ", "S", "e", "r", "v", "i", "c", "e", " ", "C", "e", "n", "t", "e", "r", " ", "-", " ", "M", "e", "d", "i", "n", "a">>, <<"M", "e", "d", "i", "n", "a">>, "King Fahd Road, Medina 42351", "+966-14-456-7890") >>,
  << ServiceCenter(<<"L", "u", "c", "i", "d", " ", "S", "e", "r", "v", "i", "c", "e", " ", "C", "e", "n", "t", "e", "r", " ", "-", " ", "T", "a", "i", "f">>, <<"T", "a", "i", "f">>, "King Khalid Road, Taif 21944", "+966-12-567-8901") >>,
  << ServiceCenter(<<"L", "u", "c", "i", "d", " ", "S", "e", "r", "v", "i", "c", "e", " ", "C", "e", "n", "t", "e", "r", " ", "-", " ", "A", "b", "h", "a">>, <<"A", "b", "h", "a">>, "King Faisal Road, Abha 61321", "+966-17-678-9012") >>,
  << ServiceCenter(<<"L", "u", "c", "i", "d", " ", "S", "e", "r", "v", "i", "c", "e", " ", "C", "e", "n", "t", "e", "r", " ", "-", " ", "T", "a", "b", "u", "k">>, <<"T", "a", "b", "u", "k">>, "King Abdulaziz Road, Tabuk 71491", "+966-14-789-0123") >>,
  << ServiceCenter(<<"L", "u", "c", "i", "d", " ", "S", "e", "r", "v", "i", "c", "e", " ", "C", "e", "n", "t", "e", "r", " ", "-", " ", "J", "a", "z", "a", "n">>, <<"J", "a", "z", "a", "n">>, "King Fahd Road, Jazan 45142", "+966-17-890-1234") >>,
  << ServiceCenter(<<"L", "u", "c", "i", "d", " ", "S", "e", "r", "v", "i", "c", "e", " ", "C", "e", "n", "t", "e", "r", " ", "-", " ", "H", "a", "i", "l">>, <<"H", "a", "i", "l">>, "King Khalid Road, Hail 81451", "+966-16-901-2345") >>,
  << ServiceCenter(<<"L", "u", "c", "i", "d", " ", "S", "e", "r", "v", "i", "c", "e", " ", "C", "e", "n", "t", "e", "r", " ", "-", " ", "A", "l", "-", "A", "h", "s", "a">>, <<"A", "l", "-", "A", "h", "s", "a">>, "King Fahd Road, Al-Ahsa 31982", "+966-13-012-3456") >>,
  << ServiceCenter(<<"L", "u", "c", "i", "d", " ", "S", "e", "r", "v", "i", "c", "e", " ", "C", "e", "n", "t", "e", "r", " ", "-", " ", "K", "h", "a", "m", "i", "s", " ", "M", "u", "s", "h", "a", "i", "t">>, <<"K", "h", "a", "m", "i", "s", " ", "M", "u", "s", "h", "a", "i", "t">>, "King Abdullah Road, Khamis Mushait 61961", "+966-17-123-4567") >> >>

\* the second assignment of AVAILABLE_TIME_SLOTS is the one in force
AVAILABLE_TIME_SLOTS == <<
  TimeSlot(<<"1", "0", " ", "A", "M">>, "July 17th"),
  TimeSlot(<<"1", "1", " ", "A", "M">>, "July 17th"),
  TimeSlot(<<"2", " ", "P", "M">>, "July 17th"),
  TimeSlot(<<"3", " ", "P", "M">>, "July 17th"),
  TimeSlot(<<"1", "0", " ", "A", "M">>, "July 18th"),
  TimeSlot(<<"1", " ", "P", "M">>, "July 18th"),
  TimeSlot(<<"4", " ", "P", "M">>, "July 18th") >>

\* SERVICE_CENTERS.get(city.lower(), [])
get_service_centers_by_city(city) == IF \E i \in 1..Len(CityKeys) : CityKeys[i] = Lower(city) THEN SERVICE_CENTERS[CHOOSE i \in 1..Len(CityKeys) : CityKeys[i] = Lower(city)] ELSE <<>>

\* first key, in definition order, contained in the lower-cased text;
\* the function falls off its end (None) when there is none
find_city_from_text(text) ==
  LET text_lower == Lower(text)
      hits == {i \in 1..Len(CityKeys) : Contains(CityKeys[i], text_lower)}
  IN IF hits = {} THEN None ELSE Some(Title(CityKeys[CHOOSE i \in hits : \A j \in hits : i <= j]))

\* ------------------------------------------------------------------------
\* Python values: dicts, and what json.loads can return
\* ------------------------------------------------------------------------
\* a dict, or a directory of files: a function on the keys present
EmptyMap == [k \in {} |-> None]

Put(m, k, v) == [x \in (DOMAIN m) \cup {k} |-> IF x = k THEN v ELSE m[x]]

PyNone == [t |-> "none", v |-> <<>>]

PyBool(b) == [t |-> "bool", v |-> b]

\* a number keeps the text it was written with
PyNum(text) == [t |-> "num", v |-> text]

PyStr(s) == [t |-> "str", v |-> s]

PyList(items) == [t |-> "list", v |-> items]

PyDict(map) == [t |-> "dict", v |-> map]

Digits == {"0", "1", "2", "3", "4", "5", "6", "7", "8", "9"}

\* bool(value)
Truthy(value) ==
  CASE value.t = "none" -> FALSE
    [] value.t = "bool" -> value.v
    [] value.t = "num" -> \E i \in 1..Len(value.v) : value.v[i] \in Digits \ {"0"}
    [] value.t = "str" -> value.v # <<>>
    [] value.t = "list" -> value.v # <<>>
    [] value.t = "dict" -> DOMAIN value.v # {}

\* ------------------------------------------------------------------------
\* Scanning text
\* ------------------------------------------------------------------------
\* what \s and str.strip() take for white space
WS == {" ", "\n", "\t", "\r"}

\* \w
WordChars == {UpperChars[i] : i \in 1..26} \cup {LowerChars[i] : i \in 1..26} \cup Digits \cup {"_"}

\* the first index from i on whose character is outside class
RECURSIVE SpanWhile(_, _, _)
SpanWhile(text, i, class) == IF i <= Len(text) /\ text[i] \in class THEN SpanWhile(text, i + 1, class) ELSE i

\* the first index from i on whose character is in stops
RECURSIVE SpanUntil(_, _, _)
SpanUntil(text, i, stops) == IF i <= Len(text) /\ text[i] \notin stops THEN SpanUntil(text, i + 1, stops) ELSE i

SkipWs(text, i) == SpanWhile(text, i, WS)

StartsWith(text, i, lit) == i + Len(lit) - 1 <= Len(text) /\ \A j \in 1..Len(lit) : text[i + j - 1] = lit[j]

\* the same under re.IGNORECASE
StartsWithCI(text, i, lit) == i + Len(lit) - 1 <= Len(text) /\ \A j \in 1..Len(lit) : LowerChar(text[i + j - 1]) = LowerChar(lit[j])

\* str.strip()
Strip(text) ==
  LET keep == {i \in 1..Len(text) : text[i] \notin WS}
  IN IF keep = {} THEN <<>>
     ELSE SubSeq(text, CHOOSE i \in keep : \A j \in keep : i <= j, CHOOSE i \in keep : \A j \in keep : i >= j)

\* ------------------------------------------------------------------------
\* json.loads, for texts without escape sequences and without the
\* constants NaN and Infinity
\* ------------------------------------------------------------------------
\* a parse from index i: the value and the index after it, or a failure
ParseFail == [ok |-> FALSE, val |-> PyNone, next |-> 0]

ParseOk(val, next) == [ok |-> TRUE, val |-> val, next |-> next]

\* a string starts at the quote at i; control characters end the parse
ParseString(text, i) ==
  LET j == SpanUntil(text, i + 1, {"\"", "\\", "\n", "\t", "\r"})
  IN IF j <= Len(text) /\ text[j] = "\"" THEN ParseOk(SubSeq(text, i + 1, j - 1), j + 1) ELSE ParseFail

\* -?(0|[1-9]\d*)(\.\d+)?([eE][-+]?\d+)?
ParseNumber(text, i) ==
  LET s == IF text[i] = "-" THEN i + 1 ELSE i
  IN IF ~(s <= Len(text) /\ text[s] \in Digits) THEN ParseFail
     ELSE LET e1 == IF text[s] = "0" THEN s + 1 ELSE SpanWhile(text, s, Digits)
              e2 == IF e1 + 1 <= Len(text) /\ text[e1] = "." /\ text[e1 + 1] \in Digits THEN SpanWhile(text, e1 + 1, Digits) ELSE e1
              p == IF e2 + 1 <= Len(text) /\ text[e2] \in {"e", "E"} /\ text[e2 + 1] \in {"+", "-"} THEN e2 + 2 ELSE e2 + 1
              e3 == IF e2 <= Len(text) /\ text[e2] \in {"e", "E"} /\ p <= Len(text) /\ text[p] \in Digits THEN SpanWhile(text, p, Digits) ELSE e2
          IN ParseOk(PyNum(SubSeq(text, i, e3 - 1)), e3)

RECURSIVE ParseValue(_, _)
RECURSIVE ParseItems(_, _, _)
RECURSIVE ParseMembers(_, _, _)

\* the items of an array from index j on, acc the items already read
ParseItems(text, j, acc) ==
  LET r == CHOOSE x \in {ParseValue(text, j)} : TRUE
  IN IF ~r.ok THEN ParseFail
     ELSE LET k == SkipWs(text, r.next)
          IN IF k > Len(text) THEN ParseFail
             ELSE IF text[k] = "]" THEN ParseOk(PyList(Append(acc, r.val)), k + 1)
             ELSE IF text[k] = "," THEN ParseItems(text, SkipWs(text, k + 1), Append(acc, r.val))
             ELSE ParseFail

\* the members of an object from index j on; a repeated key keeps its last
\* value
ParseMembers(text, j, acc) ==
  IF ~(j <= Len(text) /\ text[j] = "\"") THEN ParseFail
  ELSE LET key == ParseString(text, j)
       IN IF ~key.ok THEN ParseFail
          ELSE LET c == SkipWs(text, key.next)
               IN IF ~(c <= Len(text) /\ text[c] = ":") THEN ParseFail
                  ELSE LET r == CHOOSE x \in {ParseValue(text, SkipWs(text, c + 1))} : TRUE
                       IN IF ~r.ok THEN ParseFail
                          ELSE LET k == SkipWs(text, r.next)
                               IN IF k > Len(text) THEN ParseFail
                                  ELSE IF text[k] = "}" THEN ParseOk(PyDict(Put(acc, key.val, r.val)), k + 1)
                                  ELSE IF text[k] = "," THEN ParseMembers(text, SkipWs(text, k + 1), Put(acc, key.val, r.val))
                                  ELSE ParseFail

ParseValue(text, i) ==
  IF i > Len(text) THEN ParseFail
  ELSE IF text[i] = "{" THEN (LET j == SkipWs(text, i + 1) IN IF j <= Len(text) /\ text[j] = "}" THEN ParseOk(PyDict(EmptyMap), j + 1) ELSE ParseMembers(text, j, EmptyMap))
  ELSE IF text[i] = "[" THEN (LET j == SkipWs(text, i + 1) IN IF j <= Len(text) /\ text[j] = "]" THEN ParseOk(PyList(<<>>), j + 1) ELSE ParseItems(text, j, <<>>))
  ELSE IF text[i] = "\"" THEN (LET s == ParseString(text, i) IN IF s.ok THEN ParseOk(PyStr(s.val), s.next) ELSE ParseFail)
  ELSE IF text[i] \in Digits \cup {"-"} THEN ParseNumber(text, i)
  ELSE IF StartsWith(text, i, <<"t", "r", "u", "e">>) THEN ParseOk(PyBool(TRUE), i + 4)
  ELSE IF StartsWith(text, i, <<"f", "a", "l", "s", "e">>) THEN ParseOk(PyBool(FALSE), i + 5)
  ELSE IF StartsWith(text, i, <<"n", "u", "l", "l">>) THEN ParseOk(PyNone, i + 4)
  ELSE ParseFail

\* json.loads(text): ok is FALSE where it raises JSONDecodeError
json_loads(text) ==
  LET r == CHOOSE x \in {ParseValue(text, SkipWs(text, 1))} : TRUE
  IN IF r.ok /\ SkipWs(text, r.next) > Len(text) THEN r ELSE ParseFail

\* ------------------------------------------------------------------------
\* appointment_service.py: sanitize_llm_json_response
\* ------------------------------------------------------------------------
\* the grave accent, a character a string of this language cannot hold
Backtick == "grave"

Fence == <<Backtick, Backtick, Backtick>>

\* strategy 2, the code block pattern (a fence, json or not, white space,
\* the shortest braces, white space, a fence): the braces a match that
\* starts at the fence at i captures, as <<first, last>>, or <<>>
FencedAt(text, i) ==
  IF ~StartsWith(text, i, Fence) THEN <<>>
  ELSE LET a == IF StartsWithCI(text, i + 3, <<"j", "s", "o", "n">>) THEN i + 7 ELSE i + 3
           p == SkipWs(text, a)
           ends == {q \in (p + 1)..Len(text) : text[q] = "}" /\ StartsWith(text, SkipWs(text, q + 1), Fence)}
       IN IF p <= Len(text) /\ text[p] = "{" /\ ends # {} THEN <<p, CHOOSE q \in ends : \A q2 \in ends : q <= q2>> ELSE <<>>

\* group(1) of the leftmost match, None when the pattern is not found
CodeBlock(text) ==
  LET starts == {i \in 1..Len(text) : FencedAt(text, i) # <<>>}
  IN IF starts = {} THEN None
     ELSE LET m == FencedAt(text, CHOOSE i \in starts : \A i2 \in starts : i <= i2)
          IN Some(SubSeq(text, m[1], m[2]))

Braces == {"{", "}"}

\* strategy 3, \{[^{}]*(?:\{[^{}]*\}[^{}]*)*\} : the index of the brace
\* that closes a match whose text after the opening brace starts at j, or 0
RECURSIVE BraceTail(_, _)
BraceTail(text, j0) ==
  LET j == SpanUntil(text, j0, Braces)
  IN IF j > Len(text) THEN 0
     ELSE IF text[j] = "}" THEN j
     ELSE LET k == SpanUntil(text, j + 1, Braces)
          IN IF k <= Len(text) /\ text[k] = "}" THEN BraceTail(text, k + 1) ELSE 0

\* re.findall of that pattern from index i on
RECURSIVE FindBraces(_, _)
FindBraces(text, i) ==
  IF i > Len(text) THEN <<>>
  ELSE LET e == IF text[i] = "{" THEN BraceTail(text, i + 1) ELSE 0
       IN IF e # 0 THEN <<SubSeq(text, i, e)>> \o FindBraces(text, e + 1) ELSE FindBraces(text, i + 1)

\* the first substitution: a comma, white space and a closing brace or
\* bracket become the brace or bracket
RECURSIVE FixTrailingCommas(_, _)
FixTrailingCommas(text, i) ==
  IF i > Len(text) THEN <<>>
  ELSE LET j == SkipWs(text, i + 1)
       IN IF text[i] = "," /\ j <= Len(text) /\ text[j] \in {"}", "]"}
          THEN <<text[j]>> \o FixTrailingCommas(text, j + 1)
          ELSE <<text[i]>> \o FixTrailingCommas(text, i + 1)

\* the second substitution: a word before a colon is put in quotes, the
\* white space after the colon becomes one space
RECURSIVE QuoteKeys(_, _)
QuoteKeys(text, i) ==
  IF i > Len(text) THEN <<>>
  ELSE IF text[i] \notin WordChars THEN <<text[i]>> \o QuoteKeys(text, i + 1)
  ELSE LET j == SpanWhile(text, i, WordChars)
       IN IF j <= Len(text) /\ text[j] = ":"
          THEN <<"\"">> \o SubSeq(text, i, j - 1) \o <<"\"", ":", " ">> \o QuoteKeys(text, SkipWs(text, j + 1))
          ELSE SubSeq(text, i, j - 1) \o QuoteKeys(text, j)

\* the third substitution: after a quoted word the colon and the white
\* space around it become a colon and one space
RECURSIVE RequoteKeys(_, _)
RequoteKeys(text, i) ==
  IF i > Len(text) THEN <<>>
  ELSE LET j == SpanWhile(text, i + 1, WordChars)
           c == SkipWs(text, j + 1)
       IN IF text[i] = "\"" /\ j > i + 1 /\ j <= Len(text) /\ text[j] = "\"" /\ c <= Len(text) /\ text[c] = ":"
          THEN <<"\"">> \o SubSeq(text, i + 1, j - 1) \o <<"\"", ":", " ">> \o RequoteKeys(text, SkipWs(text, c + 1))
          ELSE <<text[i]>> \o RequoteKeys(text, i + 1)

\* the clean-up strategy 3 gives a match before parsing it
CleanMatch(match) == RequoteKeys(QuoteKeys(FixTrailingCommas(Strip(match), 1), 1), 1)

\* the value of the first match, in order, that parses
RECURSIVE FirstParsed(_, _)
FirstParsed(matches, i) ==
  IF i > Len(matches) THEN ParseFail
  ELSE LET r == CHOOSE x \in {json_loads(CleanMatch(matches[i]))} : TRUE
       IN IF r.ok THEN r ELSE FirstParsed(matches, i + 1)

\* the characters that end a field value: quote, comma, closing brace
FieldStops == {"\"", ",", "}"}

\* the least index of a set of indices, 0 for the empty set
Leftmost(starts) == IF starts = {} THEN 0 ELSE CHOOSE n \in starts : \A n2 \in starts : n <= n2

\* the text a match <<first, last>> captures
GroupText(text, m) == Some(SubSeq(text, m[1], m[2]))

\* where group(1) of the field pattern starts when the white space after
\* the colon at c ends at w: after an opening quote, at w, or, when the
\* value is empty, on the last white space character; 0 for no match
FieldGroupStart(text, c, w) ==
  IF w + 1 <= Len(text) /\ text[w] = "\"" /\ text[w + 1] \notin FieldStops THEN w + 1
  ELSE IF w <= Len(text) /\ text[w] \notin FieldStops THEN w
  ELSE IF w > c + 1 THEN w - 1
  ELSE 0

FieldGroup(text, gs) == IF gs # 0 THEN <<gs, SpanUntil(text, gs, FieldStops) - 1>> ELSE <<>>

\* the colon the pattern needs at c, then the value
FieldAfterName(text, c) ==
  IF c <= Len(text) /\ text[c] = ":" THEN FieldGroup(text, FieldGroupStart(text, c, SkipWs(text, c + 1))) ELSE <<>>

\* the index after the optional quote at m
AfterQuote(text, m) == IF m <= Len(text) /\ text[m] = "\"" THEN m + 1 ELSE m

\* strategy 4, the field pattern (name, optionally quoted, colon, value
\* up to a quote, comma or closing brace): group(1) of a match whose name
\* starts at n, as <<first, last>>, or <<>>
FieldAt(text, n, name) ==
  IF ~StartsWithCI(text, n, name) THEN <<>>
  ELSE FieldAfterName(text, SkipWs(text, AfterQuote(text, n + Len(name))))

FieldFrom(text, n, name) == IF n = 0 THEN None ELSE GroupText(text, FieldAt(text, n, name))

\* re.search(...).group(1), None when the pattern is not found
FieldMatch(text, name) ==
  FieldFrom(text, Leftmost({n \in 1..Len(text) : FieldAt(text, n, name) # <<>>}), name)

ConfidenceGroup(text, c, w) ==
  IF c <= Len(text) /\ text[c] = ":" /\ w <= Len(text) /\ text[w] \in Digits \cup {"."} THEN <<w, SpanWhile(text, w, Digits \cup {"."}) - 1>> ELSE <<>>

ConfidenceAfterName(text, c) == ConfidenceGroup(text, c, SkipWs(text, c + 1))

\* the confidence pattern: its value is a run of digits and dots
ConfidenceAt(text, n) ==
  IF ~StartsWithCI(text, n, <<"c", "o", "n", "f", "i", "d", "e", "n", "c", "e">>) THEN <<>>
  ELSE ConfidenceAfterName(text, SkipWs(text, AfterQuote(text, n + 10)))

ConfidenceFrom(text, n) == IF n = 0 THEN None ELSE GroupText(text, ConfidenceAt(text, n))

ConfidenceMatch(text) ==
  ConfidenceFrom(text, Leftmost({n \in 1..Len(text) : ConfidenceAt(text, n) # <<>>}))

\* float(text) for a text of digits and dots: the text, or 0.5 where float
\* raises ValueError
FloatOrDefault(text) ==
  IF Cardinality({i \in 1..Len(text) : text[i] = "."}) <= 1 /\ (\E i \in 1..Len(text) : text[i] \in Digits)
  THEN PyNum(text) ELSE PyNum(<<"0", ".", "5">>)

NullTexts == {<<"n", "u", "l", "l">>, <<"n", "o", "n", "e">>, <<>>}

\* a field strategy 4 found, unless its text reads as null: the mapping with
\* the stripped text under the key
PutField(extracted_data, key, match, nulls) ==
  IF IsSome(match) /\ Lower(Get(match)) \notin nulls THEN Put(extracted_data, key, PyStr(Strip(Get(match)))) ELSE extracted_data

PutConfidence(extracted_data, match) ==
  IF IsSome(match) THEN Put(extracted_data, <<"c", "o", "n", "f", "i", "d", "e", "n", "c", "e">>, FloatOrDefault(Get(match))) ELSE extracted_data

\* the mapping strategy 4 builds
ExtractFields(response) ==
  PutConfidence(
    PutField(
      PutField(
        PutField(
          PutField(EmptyMap, <<"i", "n", "t", "e", "n", "t">>, FieldMatch(response, <<"i", "n", "t", "e", "n", "t">>), {}),
          <<"c", "i", "t", "y">>, FieldMatch(response, <<"c", "i", "t", "y">>), NullTexts),
        <<"t", "i", "m", "e", "_", "p", "r", "e", "f", "e", "r", "e", "n", "c", "e">>, FieldMatch(response, <<"t", "i", "m", "e", "_", "p", "r", "e", "f", "e", "r", "e", "n", "c", "e">>), NullTexts),
      <<"c", "e", "n", "t", "e", "r", "_", "p", "r", "e", "f", "e", "r", "e", "n", "c", "e">>, FieldMatch(response, <<"c", "e", "n", "t", "e", "r", "_", "p", "r", "e", "f", "e", "r", "e", "n", "c", "e">>), NullTexts),
    ConfidenceMatch(response))

\* one strategy: its value when it parsed, otherwise what the later ones give
Attempt(r, strategy, otherwise) == IF r.ok THEN [used |-> strategy, val |-> r.val] ELSE otherwise

\* strategy 2 parses the code block, when there is one
BlockParsed(block) == IF IsSome(block) THEN json_loads(Get(block)) ELSE ParseFail

\* strategy 4 gives its mapping only when it holds an intent
FromFields(extracted_data) ==
  IF <<"i", "n", "t", "e", "n", "t">> \in DOMAIN extracted_data THEN [used |-> 4, val |-> PyDict(extracted_data)] ELSE [used |-> 5, val |-> PyNone]

\* the strategies in order: used is 0 for the empty response, 1 to 4 for the
\* strategy that decides the result, 5 when none finds a structure
SanitizeResult(response) ==
  IF response = <<>> THEN [used |-> 0, val |-> PyNone]
  ELSE Attempt(json_loads(Strip(response)), 1,
         Attempt(BlockParsed(CodeBlock(response)), 2,
           Attempt(FirstParsed(FindBraces(response, 1), 1), 3,
             FromFields(ExtractFields(response)))))

StrategyUsed(response) == SanitizeResult(response).used

sanitize_llm_json_response(response) == SanitizeResult(response).val
\* ------------------------------------------------------------------------
\* models.py: AppointmentContext
\* ------------------------------------------------------------------------
AppointmentContext(user_id, t) == [user_id |-> user_id, state |-> "INITIAL", city |-> None, selected_center |-> None, selected_time_slot |-> None, appointment_saved |-> FALSE, last_message_time |-> t]

\* the fields the booking depends on (everything but the timestamp)
Core(c) == [user_id |-> c.user_id, state |-> c.state, city |-> c.city, selected_center |-> c.selected_center, selected_time_slot |-> c.selected_time_slot, appointment_saved |-> c.appointment_saved]

\* ------------------------------------------------------------------------
\* appointment_service.py: IntentAnalysis and analyze_intent
\* ------------------------------------------------------------------------
L_booking == <<"b", "o", "o", "k", "i", "n", "g">>

L_greeting == <<"g", "r", "e", "e", "t", "i", "n", "g">>

L_location == <<"l", "o", "c", "a", "t", "i", "o", "n">>

L_center_selection == <<"c", "e", "n", "t", "e", "r", "_", "s", "e", "l", "e", "c", "t", "i", "o", "n">>

L_time_selection == <<"t", "i", "m", "e", "_", "s", "e", "l", "e", "c", "t", "i", "o", "n">>

L_confirmation == <<"c", "o", "n", "f", "i", "r", "m", "a", "t", "i", "o", "n">>

L_other == <<"o", "t", "h", "e", "r">>

KnownIntents == {L_booking, L_greeting, L_location, L_center_selection, L_time_selection, L_confirmation, L_other}

\* confidence is kept in hundredths
IntentAnalysis(intent, city, time_preference, center_preference, confidence) == [intent |-> intent, city |-> city, time_preference |-> time_preference, center_preference |-> center_preference, confidence |-> confidence]

booking_keywords == << <<"b", "o", "o", "k">>, <<"s", "c", "h", "e", "d", "u", "l", "e">>, <<"a", "p", "p", "o", "i", "n", "t", "m", "e", "n", "t">>, <<"s", "e", "r", "v", "i", "c", "e">>, <<"s", "e", "r", "v", "i", "c", "i", "n", "g">>, <<"c", "h", "e", "c", "k", "-", "u", "p">>, <<"m", "a", "i", "n", "t", "e", "n", "a", "n", "c", "e">> >>

greeting_keywords == << <<"h", "e", "l", "l", "o">>, <<"h", "i">>, <<"h", "e", "y">>, <<"g", "o", "o", "d", " ", "m", "o", "r", "n", "i", "n", "g">>, <<"g", "o", "o", "d", " ", "a", "f", "t", "e", "r", "n", "o", "o", "n">> >>

time_keywords == << <<"a", "m">>, <<"p", "m">>, <<"m", "o", "r", "n", "i", "n", "g">>, <<"a", "f", "t", "e", "r", "n", "o", "o", "n">>, <<"e", "v", "e", "n", "i", "n", "g">> >>

AnyKeyword(keywords, text) == \E i \in 1..Len(keywords) : Contains(keywords[i], text)

\* _fallback_intent_analysis that looks for a greeting before a booking
_fallback_intent_analysis_GreetingFirst(message, context) ==
  LET message_lower == Lower(message)
      city == find_city_from_text(message)
  IN IF AnyKeyword(greeting_keywords, message_lower) THEN IntentAnalysis(L_greeting, None, None, None, 90)
     ELSE IF AnyKeyword(booking_keywords, message_lower) THEN IntentAnalysis(L_booking, city, None, None, 80)
     ELSE IF IsSome(city) \/ context.state = "WAITING_LOCATION" THEN IntentAnalysis(L_location, city, None, None, 70)
     ELSE IF AnyKeyword(time_keywords, message_lower) \/ context.state = "WAITING_TIME_SLOT" THEN IntentAnalysis(L_time_selection, None, Some(message), None, 70)
     ELSE IntentAnalysis(L_other, None, None, None, 50)

\* _fallback_intent_analysis that takes a message for a center preference
\* while a center is awaited
_fallback_intent_analysis_CenterAwaited(message, context) ==
  LET message_lower == Lower(message)
      city == find_city_from_text(message)
  IN IF AnyKeyword(booking_keywords, message_lower) THEN IntentAnalysis(L_booking, city, None, None, 80)
     ELSE IF AnyKeyword(greeting_keywords, message_lower) THEN IntentAnalysis(L_greeting, None, None, None, 90)
     ELSE IF IsSome(city) \/ context.state = "WAITING_LOCATION" THEN IntentAnalysis(L_location, city, None, None, 70)
     ELSE IF context.state = "WAITING_CENTER_SELECTION" THEN IntentAnalysis(L_center_selection, None, None, Some(message), 70)
     ELSE IF AnyKeyword(time_keywords, message_lower) \/ context.state = "WAITING_TIME_SLOT" THEN IntentAnalysis(L_time_selection, None, Some(message), None, 70)
     ELSE IntentAnalysis(L_other, None, None, None, 50)

\* lines 288-328
_fallback_intent_analysis(message, context) ==
  LET message_lower == Lower(message)
      city == find_city_from_text(message)
  IN IF AnyKeyword(booking_keywords, message_lower) THEN IntentAnalysis(L_booking, city, None, None, 80)
     ELSE IF AnyKeyword(greeting_keywords, message_lower) THEN IntentAnalysis(L_greeting, None, None, None, 90)
     ELSE IF IsSome(city) \/ context.state = "WAITING_LOCATION" THEN IntentAnalysis(L_location, city, None, None, 70)
     ELSE IF AnyKeyword(time_keywords, message_lower) \/ context.state = "WAITING_TIME_SLOT" THEN IntentAnalysis(L_time_selection, None, Some(message), None, 70)
     ELSE IntentAnalysis(L_other, None, None, None, 50)

\* a value of the recovered mapping survives the cleaning loop when it is
\* truthy and is not the text null / none in any letter case
NullWords == { <<"n", "u", "l", "l">>, <<"n", "o", "n", "e">> }

CleanValue(o) == IF IsSome(o) /\ Get(o) # <<>> /\ Lower(Get(o)) \notin NullWords THEN o ELSE None

\* What the generation call and the recovery of its text produced:
\*   [kind |-> "raise"]  the chain raised
\*   [kind |-> "none"]   no mapping was recovered (None or an empty mapping)
\*   [kind |-> "data", intent, city, time_preference, center_preference]
\*                       the recovered mapping, a missing or null key is None
LLMData(intent, city, time_preference, center_preference) == [kind |-> "data", intent |-> intent, city |-> city, time_preference |-> time_preference, center_preference |-> center_preference]

\* a generation call that returned the text response
LLMText(response) == [kind |-> "text", response |-> response]

\* the field names of IntentAnalysis, as keys of a mapping
K == [intent |-> <<"i", "n", "t", "e", "n", "t">>, city |-> <<"c", "i", "t", "y">>, time_preference |-> <<"t", "i", "m", "e", "_", "p", "r", "e", "f", "e", "r", "e", "n", "c", "e">>, center_preference |-> <<"c", "e", "n", "t", "e", "r", "_", "p", "r", "e", "f", "e", "r", "e", "n", "c", "e">>, confidence |-> <<"c", "o", "n", "f", "i", "d", "e", "n", "c", "e">>, reasoning |-> <<"r", "e", "a", "s", "o", "n", "i", "n", "g">>]

\* the mapping a "data" outcome stands for: its set fields, as strings
DataDict(llm) ==
  LET d1 == IF IsSome(llm.intent) THEN Put(EmptyMap, K.intent, PyStr(Get(llm.intent))) ELSE EmptyMap
      d2 == IF IsSome(llm.city) THEN Put(d1, K.city, PyStr(Get(llm.city))) ELSE d1
      d3 == IF IsSome(llm.time_preference) THEN Put(d2, K.time_preference, PyStr(Get(llm.time_preference))) ELSE d2
  IN IF IsSome(llm.center_preference) THEN Put(d3, K.center_preference, PyStr(Get(llm.center_preference))) ELSE d3

\* json_data of analyze_intent, for an outcome that is not a raise
JsonData(llm) ==
  CASE llm.kind = "text" -> sanitize_llm_json_response(llm.response)
    [] llm.kind = "data" -> PyDict(DataDict(llm))
    [] OTHER -> PyNone

\* the test of the cleaning loop, value and str(value).lower() not in
\* the null words: only a string can spell one of them
KeepValue(value) == Truthy(value) /\ (value.t = "str" => IsSome(CleanValue(Some(value.v))))

CleanedData(data) == [k \in {k \in DOMAIN data : KeepValue(data[k])} |-> data[k]]

\* a text float() reads: digits with at most one dot and an optional sign
\* (exponents, inf and nan are not among the modelled texts)
NumericText(text) ==
  LET body == IF text # <<>> /\ text[1] \in {"-", "+"} THEN SubSeq(text, 2, Len(text)) ELSE text
  IN /\ \A i \in 1..Len(body) : body[i] \in Digits \cup {"."}
     /\ \E i \in 1..Len(body) : body[i] \in Digits
     /\ Cardinality({i \in 1..Len(body) : body[i] = "."}) <= 1

DigitValue(c) == CHOOSE n \in 0..9 : <<"0", "1", "2", "3", "4", "5", "6", "7", "8", "9">>[n + 1] = c

RECURSIVE Decimal(_)
Decimal(digits) == IF digits = <<>> THEN 0 ELSE 10 * Decimal(SubSeq(digits, 1, Len(digits) - 1)) + DigitValue(digits[Len(digits)])

\* a numeric text in hundredths, cut after the second decimal
Hundredths(text) ==
  LET negative == text[1] = "-"
      body == IF text[1] \in {"-", "+"} THEN SubSeq(text, 2, Len(text)) ELSE text
      dots == {i \in 1..Len(body) : body[i] = "."}
      dot == IF dots = {} THEN Len(body) + 1 ELSE CHOOSE i \in dots : TRUE
      frac == SubSeq(SubSeq(body, dot + 1, Len(body)) \o <<"0", "0">>, 1, 2)
      value == 100 * Decimal(SubSeq(body, 1, dot - 1)) + Decimal(frac)
  IN IF negative THEN 0 - value ELSE value

\* what a float field accepts: a number, a numeric string, a bool
FloatOk(value) == value.t \in {"num", "bool"} \/ (value.t = "str" /\ NumericText(Strip(value.v)))

FloatValue(value) == IF value.t = "bool" THEN (IF value.v THEN 100 ELSE 0) ELSE Hundredths(Strip(value.v))

\* IntentAnalysis(**cleaned_data) raises ValidationError unless intent is
\* there and a string, every other text field that is there is a string,
\* and confidence, if there, reads as a float; other keys are ignored
ValidationOk(cleaned_data) ==
  /\ K.intent \in DOMAIN cleaned_data
  /\ \A k \in {K.intent, K.city, K.time_preference, K.center_preference, K.reasoning} \cap DOMAIN cleaned_data : cleaned_data[k].t = "str"
  /\ K.confidence \in DOMAIN cleaned_data => FloatOk(cleaned_data[K.confidence])

OptionalField(cleaned_data, k) == IF k \in DOMAIN cleaned_data THEN Some(cleaned_data[k].v) ELSE None

TypedConstruction(cleaned_data) ==
  IntentAnalysis(cleaned_data[K.intent].v, OptionalField(cleaned_data, K.city), OptionalField(cleaned_data, K.time_preference), OptionalField(cleaned_data, K.center_preference),
                 IF K.confidence \in DOMAIN cleaned_data THEN FloatValue(cleaned_data[K.confidence]) ELSE 50)

\* TypedConstruction that hands out the default analysis when validation
\* fails
FromJsonData_Default(message, context, json_data) ==
  IF Truthy(json_data) /\ json_data.t = "dict" /\ ValidationOk(CleanedData(json_data.v))
  THEN TypedConstruction(CleanedData(json_data.v))
  ELSE IntentAnalysis(L_other, None, None, None, 50)

\* lines 270 to 286: a json_data that is falsy, or is no mapping (items()
\* raises AttributeError, caught at line 282), or fails validation, leads
\* to the keyword fallback
FromJsonData(message, context, json_data) ==
  IF Truthy(json_data) /\ json_data.t = "dict" /\ ValidationOk(CleanedData(json_data.v))
  THEN TypedConstruction(CleanedData(json_data.v))
  ELSE _fallback_intent_analysis(message, context)

analyze_intent(message, context, llm) ==
  IF llm.kind = "raise" THEN _fallback_intent_analysis(message, context)
  ELSE LET json_data == CHOOSE x \in {JsonData(llm)} : TRUE
       IN FromJsonData(message, context, json_data)

\* ------------------------------------------------------------------------
\* appointment_service.py: update_context_state
\* ------------------------------------------------------------------------
\* first element of seq, in order, that satisfies the test; None if none
FirstIndex(S) == IF S = {} THEN 0 ELSE CHOOSE i \in S : \A j \in S : i <= j

\* the truth value of an Optional[str]: None and the empty string are false
NonEmpty(opt) == IsSome(opt) /\ Get(opt) # <<>>

\* AdoptCity that takes the city of the intent whenever it carries one
AdoptCity_Overwrite(context, intent) == IF NonEmpty(intent.city) THEN [context EXCEPT !.city = intent.city] ELSE context

\* lines 525-526
AdoptCity(context, intent) == IF NonEmpty(intent.city) /\ ~NonEmpty(context.city) THEN [context EXCEPT !.city = intent.city] ELSE context

\* MatchCenter with the preference compared to the whole name for equality
MatchCenter_ExactName(context, intent) ==
  IF NonEmpty(intent.center_preference) /\ NonEmpty(context.city)
  THEN LET centers_in_city == get_service_centers_by_city(Get(context.city))
           pref_lower == Lower(Get(intent.center_preference))
           k == FirstIndex({i \in 1..Len(centers_in_city) : pref_lower = Lower(centers_in_city[i].name)})
       IN IF k = 0 THEN context ELSE [context EXCEPT !.selected_center = Some(centers_in_city[k])]
  ELSE context

\* MatchCenter that keeps the last center that matches
MatchCenter_LastMatch(context, intent) ==
  IF NonEmpty(intent.center_preference) /\ NonEmpty(context.city)
  THEN LET centers_in_city == get_service_centers_by_city(Get(context.city))
           pref_lower == Lower(Get(intent.center_preference))
           hits == {i \in 1..Len(centers_in_city) : Contains(pref_lower, Lower(centers_in_city[i].name))}
       IN IF hits = {} THEN context ELSE [context EXCEPT !.selected_center = Some(centers_in_city[CHOOSE i \in hits : \A j \in hits : j <= i])]
  ELSE context

\* lines 528-535
MatchCenter(context, intent) ==
  IF NonEmpty(intent.center_preference) /\ NonEmpty(context.city)
  THEN LET centers_in_city == get_service_centers_by_city(Get(context.city))
           pref_lower == Lower(Get(intent.center_preference))
           k == FirstIndex({i \in 1..Len(centers_in_city) : Contains(pref_lower, Lower(centers_in_city[i].name))})
       IN IF k = 0 THEN context ELSE [context EXCEPT !.selected_center = Some(centers_in_city[k])]
  ELSE context

\* MatchTimeSlot that keeps the last slot that matches
MatchTimeSlot_LastMatch(context, intent) ==
  IF NonEmpty(intent.time_preference)
  THEN LET pref_lower == Lower(Get(intent.time_preference))
           hits == {i \in 1..Len(AVAILABLE_TIME_SLOTS) : Contains(Lower(AVAILABLE_TIME_SLOTS[i].time), pref_lower) \/ Contains(pref_lower, Lower(AVAILABLE_TIME_SLOTS[i].time))}
       IN IF hits = {} THEN context ELSE [context EXCEPT !.selected_time_slot = Some(AVAILABLE_TIME_SLOTS[CHOOSE i \in hits : \A j \in hits : j <= i])]
  ELSE context

\* lines 537-543
MatchTimeSlot(context, intent) ==
  IF NonEmpty(intent.time_preference)
  THEN LET pref_lower == Lower(Get(intent.time_preference))
           k == FirstIndex({i \in 1..Len(AVAILABLE_TIME_SLOTS) : Contains(Lower(AVAILABLE_TIME_SLOTS[i].time), pref_lower) \/ Contains(pref_lower, Lower(AVAILABLE_TIME_SLOTS[i].time))})
       IN IF k = 0 THEN context ELSE [context EXCEPT !.selected_time_slot = Some(AVAILABLE_TIME_SLOTS[k])]
  ELSE context

\* AdvanceState in which a confirmation completes only a context that has
\* its center and its slot
AdvanceState_ConfirmWhenReady(context, intent) ==
  IF intent.intent = L_confirmation /\ ~(IsSome(context.selected_center) /\ IsSome(context.selected_time_slot)) THEN context
  ELSE IF intent.intent = L_confirmation THEN [context EXCEPT !.state = "COMPLETED"]
  ELSE context

\* AdvanceState in which a time selection confirms only with a slot selected
AdvanceState_TimeNeedsSlot(context, intent) ==
  IF intent.intent = L_greeting
  THEN IF NonEmpty(context.city) /\ context.state = "INITIAL" THEN [context EXCEPT !.state = "WAITING_CENTER_SELECTION"] ELSE context
  ELSE IF intent.intent = L_booking
  THEN IF ~NonEmpty(context.city) THEN [context EXCEPT !.state = "WAITING_LOCATION"]
       ELSE IF ~IsSome(context.selected_center) THEN [context EXCEPT !.state = "WAITING_CENTER_SELECTION"]
       ELSE IF ~IsSome(context.selected_time_slot) THEN [context EXCEPT !.state = "WAITING_TIME_SLOT"]
       ELSE context
  ELSE IF intent.intent = L_location THEN [context EXCEPT !.state = "WAITING_CENTER_SELECTION"]
  ELSE IF intent.intent = L_center_selection THEN [context EXCEPT !.state = "WAITING_TIME_SLOT"]
  ELSE IF intent.intent = L_time_selection
  THEN IF IsSome(context.selected_center) /\ IsSome(context.selected_time_slot) THEN [context EXCEPT !.state = "CONFIRMING_APPOINTMENT"] ELSE context
  ELSE IF intent.intent = L_confirmation THEN [context EXCEPT !.state = "COMPLETED"]
  ELSE context

\* AdvanceState in which a center selection advances only with a center
\* selected
AdvanceState_CenterNeedsMatch(context, intent) ==
  IF intent.intent = L_greeting
  THEN IF NonEmpty(context.city) /\ context.state = "INITIAL" THEN [context EXCEPT !.state = "WAITING_CENTER_SELECTION"] ELSE context
  ELSE IF intent.intent = L_booking
  THEN IF ~NonEmpty(context.city) THEN [context EXCEPT !.state = "WAITING_LOCATION"]
       ELSE IF ~IsSome(context.selected_center) THEN [context EXCEPT !.state = "WAITING_CENTER_SELECTION"]
       ELSE IF ~IsSome(context.selected_time_slot) THEN [context EXCEPT !.state = "WAITING_TIME_SLOT"]
       ELSE context
  ELSE IF intent.intent = L_location THEN [context EXCEPT !.state = "WAITING_CENTER_SELECTION"]
  ELSE IF intent.intent = L_center_selection THEN (IF IsSome(context.selected_center) THEN [context EXCEPT !.state = "WAITING_TIME_SLOT"] ELSE context)
  ELSE IF intent.intent = L_time_selection
  THEN IF IsSome(context.selected_center) THEN [context EXCEPT !.state = "CONFIRMING_APPOINTMENT"] ELSE context
  ELSE IF intent.intent = L_confirmation THEN [context EXCEPT !.state = "COMPLETED"]
  ELSE context

\* AdvanceState in which a greeting with a city known advances from every
\* state
AdvanceState_GreetingAnyState(context, intent) ==
  IF intent.intent = L_greeting
  THEN IF NonEmpty(context.city) THEN [context EXCEPT !.state = "WAITING_CENTER_SELECTION"] ELSE context
  ELSE IF intent.intent = L_booking
  THEN IF ~NonEmpty(context.city) THEN [context EXCEPT !.state = "WAITING_LOCATION"]
       ELSE IF ~IsSome(context.selected_center) THEN [context EXCEPT !.state = "WAITING_CENTER_SELECTION"]
       ELSE IF ~IsSome(context.selected_time_slot) THEN [context EXCEPT !.state = "WAITING_TIME_SLOT"]
       ELSE context
  ELSE IF intent.intent = L_location THEN [context EXCEPT !.state = "WAITING_CENTER_SELECTION"]
  ELSE IF intent.intent = L_center_selection THEN [context EXCEPT !.state = "WAITING_TIME_SLOT"]
  ELSE IF intent.intent = L_time_selection
  THEN IF IsSome(context.selected_center) THEN [context EXCEPT !.state = "CONFIRMING_APPOINTMENT"] ELSE context
  ELSE IF intent.intent = L_confirmation THEN [context EXCEPT !.state = "COMPLETED"]
  ELSE context

\* lines 545-571
AdvanceState(context, intent) ==
  IF intent.intent = L_greeting
  THEN IF NonEmpty(context.city) /\ context.state = "INITIAL" THEN [context EXCEPT !.state = "WAITING_CENTER_SELECTION"] ELSE context
  ELSE IF intent.intent = L_booking
  THEN IF ~NonEmpty(context.city) THEN [context EXCEPT !.state = "WAITING_LOCATION"]
       ELSE IF ~IsSome(context.selected_center) THEN [context EXCEPT !.state = "WAITING_CENTER_SELECTION"]
       ELSE IF ~IsSome(context.selected_time_slot) THEN [context EXCEPT !.state = "WAITING_TIME_SLOT"]
       ELSE context
  ELSE IF intent.intent = L_location THEN [context EXCEPT !.state = "WAITING_CENTER_SELECTION"]
  ELSE IF intent.intent = L_center_selection THEN [context EXCEPT !.state = "WAITING_TIME_SLOT"]
  ELSE IF intent.intent = L_time_selection
  THEN IF IsSome(context.selected_center) THEN [context EXCEPT !.state = "CONFIRMING_APPOINTMENT"] ELSE context
  ELSE IF intent.intent = L_confirmation THEN [context EXCEPT !.state = "COMPLETED"]
  ELSE context

\* ShouldRecord without the test of the state
ShouldRecord_AnyState(context) == IsSome(context.selected_center) /\ IsSome(context.selected_time_slot) /\ ~context.appointment_saved

\* the guard of the "persist the appointment exactly once" block
ShouldRecord(context) == context.state = "COMPLETED" /\ IsSome(context.selected_center) /\ IsSome(context.selected_time_slot) /\ ~context.appointment_saved

\* BeforeRecord that advances the state before the fields of the turn are
\* applied
BeforeRecord_StateFirst(context, intent) == MatchTimeSlot(MatchCenter(AdoptCity(AdvanceState(context, intent), intent), intent), intent)

\* the context as it stands when the recording guard is evaluated
BeforeRecord(context, intent) == AdvanceState(MatchTimeSlot(MatchCenter(AdoptCity(context, intent), intent), intent), intent)

\* update_context_state that leaves appointment_saved alone
update_context_state_FlagUnset(context, intent, t) ==
  LET c == BeforeRecord(context, intent)
  IN [c EXCEPT !.last_message_time = t]

\* update_context_state that sets the flag only in the call of a
\* confirmation
update_context_state_ConfirmationOnly(context, intent, t) ==
  LET c == BeforeRecord(context, intent)
  IN [c EXCEPT !.appointment_saved = IF ShouldRecord(c) /\ intent.intent = L_confirmation THEN TRUE ELSE @, !.last_message_time = t]

\* lines 521-584
update_context_state(context, intent, t) ==
  LET c == BeforeRecord(context, intent)
  IN [c EXCEPT !.appointment_saved = IF ShouldRecord(c) THEN TRUE ELSE @, !.last_message_time = t]

\* ServiceCenter.__str__
CenterStr(center) == <<"L", "u", "c", "i", "d", " ", "S", "e", "r", "v", "i", "c", "e", " ", "C", "e", "n", "t", "e", "r", " ", "-", " ">> \o center.city

\* the row _record_appointment writes
AppointmentRow(context, t) == [user_id |-> context.user_id, city |-> IF IsSome(context.city) THEN Get(context.city) ELSE <<>>, center |-> IF IsSome(context.selected_center) THEN CenterStr(Get(context.selected_center)) ELSE <<>>, date |-> IF IsSome(context.selected_time_slot) THEN Get(context.selected_time_slot).date ELSE "", time |-> IF IsSome(context.selected_time_slot) THEN Get(context.selected_time_slot).time ELSE <<>>, booking_timestamp |-> t]

CsvHeader == <<"user_id", "city", "center", "date", "time", "booking_timestamp">>

\* _record_appointment that writes the header with every row
_record_appointment_HeaderEachTime(file, context, t, fault) ==
  IF fault = "write" THEN file
  ELSE IF IsSome(file) THEN Some(Get(file) \o <<CsvHeader, AppointmentRow(context, t)>>)
  ELSE Some(<<CsvHeader, AppointmentRow(context, t)>>)

\* the log after _record_appointment: None while appointments.csv does not
\* exist, else <<rows>> with the header as first row
_record_appointment(file, context, t, fault) ==
  IF fault = "write" THEN file
  ELSE IF IsSome(file) THEN Some(Append(Get(file), AppointmentRow(context, t)))
  ELSE Some(<<CsvHeader, AppointmentRow(context, t)>>)

\* generate_response answers without the generation call exactly here
IsConfirmed(context) == context.state = "COMPLETED" /\ IsSome(context.selected_center) /\ IsSome(context.selected_time_slot)

\* ------------------------------------------------------------------------
\* context_manager.py: ContextManager
\* ------------------------------------------------------------------------
\* canonical user ids, and the ids the transport hands in
Users == {<<"U", "1">>}

ExternalIds == {<<"w", "h", "a", "t", "s", "a", "p", "p", ":", "U", "1">>}

\* CleanUserId that cuts at the first colon
CleanUserId_FirstColon(ext) ==
  LET colons == {i \in 1..Len(ext) : ext[i] = ":"}
  IN IF colons = {} THEN ext ELSE SubSeq(ext, (CHOOSE i \in colons : \A j \in colons : i <= j) + 1, Len(ext))

\* user_id.split(":")[-1] if ":" in user_id else user_id
CleanUserId(ext) ==
  LET colons == {i \in 1..Len(ext) : ext[i] = ":"}
  IN IF colons = {} THEN ext ELSE SubSeq(ext, (CHOOSE i \in colons : \A j \in colons : i >= j) + 1, Len(ext))

\* datetime.isoformat() and datetime.fromisoformat()
IsoFormat(t) == <<"iso", t>>

FromIsoFormat(s) == s[2]

\* whether fromisoformat accepts the text; it raises ValueError otherwise
IsIsoFormat(s) == s[1] = "iso"

\* the condition of the disk: reads fail, writes fail, or neither
IoFaults == {"none", "read", "write"}

\* a snapshot whose content is not a JSON object is kept as its text
RawFile(text) == [raw |-> text]

IsRaw(data) == "raw" \in DOMAIN data

\* json.load of a file kept as text, then the conversions of lines 97-106:
\* the text does not parse, or the value is not a mapping and the
\* conversions raise TypeError
RawLoadError(r) == IF ~r.ok THEN "JSONDecodeError" ELSE IF r.val.t # "dict" THEN "TypeError" ELSE "none"

\* LoadError that takes any timestamp
LoadError_AnyTimestamp(data) ==
  IF IsRaw(data) THEN RawLoadError(json_loads(data.raw))
  ELSE IF ~IsSome(StateFromValue(data.state)) THEN "ValueError"
  ELSE "none"

\* the exception the try block of _load_context_from_file raises on the
\* content of a snapshot, "none" when it returns a context
LoadError(data) ==
  IF IsRaw(data) THEN RawLoadError(json_loads(data.raw))
  ELSE IF ~IsSome(StateFromValue(data.state)) THEN "ValueError"
  ELSE IF ~IsIsoFormat(data.last_message_time) THEN "ValueError"
  ELSE "none"

\* line 108: except (json.JSONDecodeError, ValueError, TypeError)
LoadCaught == {"JSONDecodeError", "ValueError", "TypeError"}

\* ContextDict that leaves appointment_saved at its default
ContextDict_NoSavedFlag(context) == [user_id |-> context.user_id, state |-> StateValue(context.state), city |-> context.city, selected_center |-> context.selected_center, selected_time_slot |-> context.selected_time_slot, appointment_saved |-> FALSE, last_message_time |-> IsoFormat(context.last_message_time)]

\* the JSON text _save_context_to_file writes for a context
ContextDict(context) == [user_id |-> context.user_id, state |-> StateValue(context.state), city |-> context.city, selected_center |-> context.selected_center, selected_time_slot |-> context.selected_time_slot, appointment_saved |-> context.appointment_saved, last_message_time |-> IsoFormat(context.last_message_time)]

\* a failing write is caught (line 143) and leaves the file as it was
_save_context_to_file(files, user_id, context, fault) ==
  IF fault = "write" THEN files ELSE Put(files, user_id, ContextDict(context))

\* the context a readable snapshot holds
LoadedContext(data) == [user_id |-> data.user_id, state |-> Get(StateFromValue(data.state)), city |-> data.city, selected_center |-> data.selected_center, selected_time_slot |-> data.selected_time_slot, appointment_saved |-> data.appointment_saved, last_message_time |-> FromIsoFormat(data.last_message_time)]

\* what _load_context_from_file returns when the file, if any, can be
\* opened: None when there is no file or its content is malformed
_load_context_from_file(files, user_id) ==
  IF user_id \notin DOMAIN files THEN None
  ELSE IF LoadError(files[user_id]) \in LoadCaught THEN None
  ELSE Some(LoadedContext(files[user_id]))

\* open() of an existing snapshot raises OSError, which line 108 does not
\* catch: get_context raises it for a user that is not cached
GetContextRaises(cache, files, user_id, fault) ==
  user_id \notin DOMAIN cache /\ user_id \in DOMAIN files /\ fault = "read"

\* where get_context finds the context of a canonical id
ContextSource(cache, files, user_id) == IF user_id \in DOMAIN cache THEN "cache" ELSE IF IsSome(_load_context_from_file(files, user_id)) THEN "file" ELSE "new"

\* the context get_context returns (and leaves in the cache)
get_context(cache, files, user_id, t) ==
  IF user_id \in DOMAIN cache THEN cache[user_id]
  ELSE LET loaded == _load_context_from_file(files, user_id)
       IN IF IsSome(loaded) THEN Get(loaded) ELSE AppointmentContext(user_id, t)

_get_context_dict(context) == [state |-> StateValue(context.state), city |-> context.city, has_selected_center |-> IsSome(context.selected_center), has_selected_time |-> IsSome(context.selected_time_slot)]

HistoryLimit == 50

\* LastN that keeps the oldest n entries
LastN_Oldest(s, n) == IF Len(s) > n THEN SubSeq(s, 1, n) ELSE s

\* history_data[-n:] once there are more than n entries
LastN(s, n) == IF Len(s) > n THEN SubSeq(s, Len(s) - n + 1, Len(s)) ELSE s

HistoryEntry(t, user_message, bot_response, context) == [timestamp |-> IsoFormat(t), user_message |-> user_message, bot_response |-> bot_response, context |-> _get_context_dict(context)]

\* lines 164-170: a missing file and a file that cannot be read both give
\* []
ReadHistory(files, user_id, fault) ==
  IF user_id \notin DOMAIN files \/ fault = "read" THEN <<>> ELSE files[user_id]

\* the history file after one more entry; a failing write is caught (line
\* 191) and leaves the file as it was
_append_to_history_file(files, user_id, entry, fault) ==
  IF fault = "write" THEN files
  ELSE Put(files, user_id, LastN(Append(ReadHistory(files, user_id, fault), entry), HistoryLimit))

\* history_data[-limit:]
LastSlice(history_data, limit) == IF limit = 0 THEN history_data ELSE LastN(history_data, limit)

\* the ConversationHistory object of a stored entry
HistoryObject(entry) == [timestamp |-> FromIsoFormat(entry.timestamp), user_message |-> entry.user_message, bot_response |-> entry.bot_response, context |-> entry.context]

\* what _load_recent_history returns when the file, if any, can be opened
_load_recent_history(files, user_id, limit) ==
  IF user_id \notin DOMAIN files THEN <<>>
  ELSE [i \in 1..Len(LastSlice(files[user_id], limit)) |-> HistoryObject(LastSlice(files[user_id], limit)[i])]

\* open() of an existing history file raises OSError, which line 220 does
\* not catch
LoadHistoryRaises(files, user_id, fault) == user_id \in DOMAIN files /\ fault = "read"

\* ------------------------------------------------------------------------
\* What the model feeds in
\* ------------------------------------------------------------------------
M_book == <<"I", " ", "n", "e", "e", "d", " ", "t", "o", " ", "b", "o", "o", "k", " ", "a", " ", "s", "e", "r", "v", "i", "c", "e", " ", "i", "n", " ", "R", "i", "y", "a", "d", "h">>

M_downtown == <<"d", "o", "w", "n", "t", "o", "w", "n">>

M_10am == <<"1", "0", " ", "A", "M">>

M_center == <<"t", "h", "e", " ", "d", "o", "w", "n", "t", "o", "w", "n", " ", "o", "n", "e", " ", "i", "n", " ", "R", "i", "y", "a", "d", "h">>

M_confirm == <<"y", "e", "s", ",", " ", "R", "i", "y", "a", "d", "h", " ", "d", "o", "w", "n", "t", "o", "w", "n", " ", "a", "t", " ", "1", "0", " ", "A", "M">>

M_makkah == <<"I", "'", "m", " ", "i", "n", " ", "M", "a", "k", "k", "a", "h">>

M_dubai == <<"I", "s", " ", "t", "h", "e", "r", "e", " ", "a", " ", "c", "e", "n", "t", "e", "r", " ", "i", "n", " ", "D", "u", "b", "a", "i", "?">>

Messages == {M_book, M_downtown, M_10am, M_center, M_confirm, M_makkah, M_dubai}

\* the messages intent analysis is tried on: those of the turns, and one
\* with a greeting and a booking keyword, a greeting, a time of day, and one
\* without any keyword
AnalyzerMessages == Messages \cup {<<"H", "e", "l", "l", "o", ",", " ", "c", "a", "n", " ", "I", " ", "s", "c", "h", "e", "d", "u", "l", "e", " ", "m", "a", "i", "n", "t", "e", "n", "a", "n", "c", "e", "?">>, <<"h", "i", " ", "t", "h", "e", "r", "e">>, <<"t", "o", "m", "o", "r", "r", "o", "w", " ", "m", "o", "r", "n", "i", "n", "g">>, <<"o", "k">>}

\* the contexts intent analysis is tried on: one per conversation state
AnalyzerContexts == {[AppointmentContext(<<"U", "1">>, 0) EXCEPT !.state = st] : st \in ConversationState}

\* texts a generation call can come back with: mappings (with a known
\* label, an unknown label, a confidence that is no number, a confidence,
\* no intent, a null intent), JSON values that are no mapping, fenced
\* blocks, prose around braces, bare fields, a refusal, nothing
Responses ==
  { <<"{", "\"", "i", "n", "t", "e", "n", "t", "\"", ":", " ", "\"", "l", "o", "c", "a", "t", "i", "o", "n", "\"", ",", " ", "\"", "c", "i", "t", "y", "\"", ":", " ", "\"", "D", "u", "b", "a", "i", "\"", "}">>,
    <<"{", "\"", "i", "n", "t", "e", "n", "t", "\"", ":", " ", "\"", "b", "a", "n", "a", "n", "a", "\"", "}">>,
    <<"{", "\"", "i", "n", "t", "e", "n", "t", "\"", ":", " ", "\"", "b", "o", "o", "k", "i", "n", "g", "\"", ",", " ", "\"", "c", "o", "n", "f", "i", "d", "e", "n", "c", "e", "\"", ":", " ", "\"", "h", "i", "g", "h", "\"", "}">>,
    <<" ", " ", "{", "\"", "i", "n", "t", "e", "n", "t", "\"", ":", " ", "\"", "o", "t", "h", "e", "r", "\"", ",", " ", "\"", "c", "o", "n", "f", "i", "d", "e", "n", "c", "e", "\"", ":", " ", "0", ".", "9", "}", " ", " ">>,
    <<"{", "\"", "c", "i", "t", "y", "\"", ":", " ", "\"", "R", "i", "y", "a", "d", "h", "\"", "}">>,
    <<"{", "\"", "i", "n", "t", "e", "n", "t", "\"", ":", " ", "n", "u", "l", "l", ",", " ", "\"", "c", "i", "t", "y", "\"", ":", " ", "\"", "J", "e", "d", "d", "a", "h", "\"", "}">>,
    <<"4", "2">>,
    <<"[", "1", "]">>,
    <<"t", "r", "u", "e">>,
    <<"\"", "h", "i", "\"">>,
    <<"n", "u", "l", "l">>,
    <<Backtick, Backtick, Backtick, "j", "s", "o", "n", "\n", "{", "\"", "i", "n", "t", "e", "n", "t", "\"", ":", " ", "\"", "g", "r", "e", "e", "t", "i", "n", "g", "\"", "}", "\n", Backtick, Backtick, Backtick>>,
    <<Backtick, Backtick, Backtick, "{", "\"", "c", "i", "t", "y", "\"", ":", " ", "\"", "J", "e", "d", "d", "a", "h", "\"", "}", Backtick, Backtick, Backtick>>,
    <<"S", "u", "r", "e", "!", " ", "{", "i", "n", "t", "e", "n", "t", ":", " ", "\"", "b", "o", "o", "k", "i", "n", "g", "\"", ",", "}">>,
    <<"H", "e", "r", "e", " ", "{", "c", "i", "t", "y", ":", " ", "\"", "R", "i", "y", "a", "d", "h", "\"", "}">>,
    <<"i", "n", "t", "e", "n", "t", ":", " ", "b", "o", "o", "k", "i", "n", "g", ",", " ", "c", "i", "t", "y", ":", " ", "n", "u", "l", "l">>,
    <<"I", " ", "c", "a", "n", "n", "o", "t", " ", "h", "e", "l", "p">>,
    <<>> }

\* what analyze_intent may get from the generation call on its own: the
\* call raises, or it returns one of the texts
AnalyzerOutcomes == {[kind |-> "raise"]} \cup {LLMText(r) : r \in Responses}

T_Riyadh == <<"R", "i", "y", "a", "d", "h">>

T_Makkah == <<"M", "a", "k", "k", "a", "h">>

T_Dubai == <<"D", "u", "b", "a", "i">>

T_Jeddah == <<"J", "e", "d", "d", "a", "h">>

T_downtown == <<"d", "o", "w", "n", "t", "o", "w", "n">>

T_10am == <<"1", "0", " ", "A", "M">>

\* the mappings the generation call is taken to return for a message, when
\* it returns one
Analyses(message) ==
  CASE message = M_downtown -> {LLMData(Some(L_center_selection), None, None, Some(T_downtown))}
    [] message = M_center -> {LLMData(Some(L_center_selection), Some(T_Riyadh), None, Some(T_downtown))}
    [] message = M_confirm -> {LLMData(Some(L_confirmation), Some(T_Riyadh), Some(T_10am), Some(T_downtown))}
    [] message = M_makkah -> {LLMData(Some(L_location), Some(T_Makkah), None, None)}
    [] message = M_dubai -> {LLMData(Some(L_location), Some(T_Dubai), None, None)}
    [] OTHER -> {}

\* what intent analysis may get for a message: the call raises, or one of
\* the mappings above is recovered
LLMOutcomes(message) == {[kind |-> "raise"]} \cup Analyses(message)

CleanupDays == {0, 1}

\* the field values update_context is called with
UpdateKwargs == [state : ConversationState, city : {None, Some(T_Jeddah)}, selected_center : {None, Some(SERVICE_CENTERS[1][1])}, selected_time_slot : {None, Some(AVAILABLE_TIME_SLOTS[1])}, appointment_saved : BOOLEAN]

\* ------------------------------------------------------------------------
\* State
\* ------------------------------------------------------------------------
\* contexts          ContextManager._contexts
\* contextFiles      History/<id>_context.json, by canonical id
\* historyFiles      History/<id>_history.json, by canonical id
\* appointmentsFile  appointments.csv: None or <<rows>>
\* now               the clock
\* recorderCalls     _record_appointment invocations so far, by user
\* turns             process_message calls so far
\* arrivals          every history entry appended so far, by user
\* persisted         the context last handed to _save_context_to_file
\* fromFile          the users whose cached context was read from a snapshot
\* call              the latest call of a function taken on its own: None,
\*                   or <<[op, its arguments]>>
\* returned          None, or <<the value that call returned>>
\* ioFault           the condition of the disk
\* escaped           None, or <<the exception the latest operation raised
\*                   to its caller>>
\* reply             None, or <<what the latest process_message returned>>
\* threads           the process_message calls that run concurrently, by
\*                   thread: where each stands and what it holds in its
\*                   local variables

StoreInit ==
  /\ contexts = EmptyMap
  /\ contextFiles = EmptyMap
  /\ historyFiles = EmptyMap
  /\ appointmentsFile = None
  /\ now = 0
  /\ recorderCalls = [u \in Users |-> 0]
  /\ turns = 0
  /\ arrivals = [u \in Users |-> <<>>]
  /\ persisted = [u \in Users |-> None]
  /\ fromFile = {}

Init ==
  /\ StoreInit
  /\ call = None
  /\ returned = None
  /\ ioFault = "none"
  /\ escaped = None
  /\ reply = None
  /\ threads = EmptyMap

\* _generate_confirmation
Confirmation(context) == [kind |-> "confirmation", center |-> CenterStr(Get(context.selected_center)), slot |-> Get(context.selected_time_slot)]

Generated == [kind |-> "generated"]

\* the fixed message of line 93
Apology == [kind |-> "apology"]

\* TopLevelCatch without the except clause
TopLevelCatch_Reraise(raised, response) == [reply |-> Some(response), escaped |-> raised]

\* lines 67 and 91-93: raised is None when the try block reaches its
\* return, else <<the exception>>, which is logged and becomes the apology
TopLevelCatch(raised, response) == [reply |-> Some(IF IsSome(raised) THEN Apology ELSE response), escaped |-> None]

\* chatbot.py: process_message(user_message, user_id).  llm is what intent
\* analysis gets from the generation call, generationRaises whether the
\* response chain raises when it is invoked.
process_message(ext, user_message, llm, generationRaises) ==
  /\ turns' = turns + 1
  /\ \E user_id \in {CleanUserId(ext)} :
       IF GetContextRaises(contexts, contextFiles, user_id, ioFault)
       THEN \E out \in {TopLevelCatch(Some("OSError"), Generated)} :
              /\ reply' = out.reply
              /\ escaped' = out.escaped
              /\ UNCHANGED <<threads, contexts, contextFiles, historyFiles, appointmentsFile, now, recorderCalls, arrivals, persisted, fromFile, call, returned, ioFault>>
       ELSE \E before \in {get_context(contexts, contextFiles, user_id, now)} :
            \E intent \in {analyze_intent(user_message, before, llm)} :
            \E ready \in {BeforeRecord(before, intent)} :
            \E context \in {update_context_state(before, intent, now)} :
            \E failed \in {~IsConfirmed(context) /\ generationRaises} :
            \E response \in {IF IsConfirmed(context) THEN Confirmation(context) ELSE Generated} :
            \E entry \in {HistoryEntry(now, user_message, response, context)} :
            \E out \in {TopLevelCatch(IF failed THEN Some("Exception") ELSE None, response)} :
              /\ contexts' = Put(contexts, user_id, context)
              /\ appointmentsFile' = IF ShouldRecord(ready) THEN _record_appointment(appointmentsFile, ready, now, ioFault) ELSE appointmentsFile
              /\ recorderCalls' = IF ShouldRecord(ready) THEN [recorderCalls EXCEPT ![user_id] = @ + 1] ELSE recorderCalls
              /\ historyFiles' = IF failed THEN historyFiles ELSE _append_to_history_file(historyFiles, user_id, entry, ioFault)
              /\ arrivals' = IF failed THEN arrivals ELSE [arrivals EXCEPT ![user_id] = Append(@, entry)]
              /\ fromFile' = IF ContextSource(contexts, contextFiles, user_id) = "file" THEN fromFile \cup {user_id} ELSE fromFile
              /\ reply' = out.reply
              /\ escaped' = out.escaped
              /\ UNCHANGED <<threads, contextFiles, now, persisted, call, returned, ioFault>>

\* a process_message call of a run of at most MaxTurns calls
ProcessMessage(ext, user_message, llm, generationRaises) ==
  /\ turns < MaxTurns
  /\ process_message(ext, user_message, llm, generationRaises)

\* chatbot.py: get_user_context_summary, which the /chat and /context
\* routes call: get_context with its caching
GetContextSummary(ext) ==
  /\ \E user_id \in {CleanUserId(ext)} :
       IF GetContextRaises(contexts, contextFiles, user_id, ioFault)
       THEN escaped' = Some("OSError") /\ UNCHANGED <<threads, contexts, fromFile>>
       ELSE /\ contexts' = Put(contexts, user_id, get_context(contexts, contextFiles, user_id, now))
            /\ fromFile' = IF ContextSource(contexts, contextFiles, user_id) = "file" THEN fromFile \cup {user_id} ELSE fromFile
            /\ escaped' = None
  /\ UNCHANGED <<threads, contextFiles, historyFiles, appointmentsFile, now, recorderCalls, turns, arrivals, persisted, call, returned, ioFault, reply>>

\* ResetContext that leaves the snapshot alone
ResetContext_CacheOnly(ext) ==
  LET user_id == CleanUserId(ext)
      context == AppointmentContext(user_id, now)
  IN /\ contexts' = Put(contexts, user_id, context)
     /\ persisted' = [persisted EXCEPT ![user_id] = Some(context)]
     /\ fromFile' = fromFile \ {user_id}
     /\ escaped' = None
     /\ UNCHANGED <<threads, contextFiles, historyFiles, appointmentsFile, now, recorderCalls, turns, arrivals, call, returned, ioFault, reply>>

\* context_manager.py: reset_context
ResetContext(ext) ==
  LET user_id == CleanUserId(ext)
      context == AppointmentContext(user_id, now)
  IN /\ contexts' = Put(contexts, user_id, context)
     /\ contextFiles' = _save_context_to_file(contextFiles, user_id, context, ioFault)
     /\ persisted' = [persisted EXCEPT ![user_id] = Some(context)]
     /\ fromFile' = fromFile \ {user_id}
     /\ escaped' = None
     /\ UNCHANGED <<threads, historyFiles, appointmentsFile, now, recorderCalls, turns, arrivals, call, returned, ioFault, reply>>

\* context_manager.py: update_context(user_id, **kwargs), kwargs naming the
\* five booking fields
UpdateContext(ext, kwargs) ==
  /\ \E user_id \in {CleanUserId(ext)} :
       IF GetContextRaises(contexts, contextFiles, user_id, ioFault)
       THEN escaped' = Some("OSError") /\ UNCHANGED <<threads, contexts, contextFiles, persisted, fromFile>>
       ELSE \E before \in {get_context(contexts, contextFiles, user_id, now)} :
            \E context \in {[before EXCEPT !.state = kwargs.state, !.city = kwargs.city, !.selected_center = kwargs.selected_center, !.selected_time_slot = kwargs.selected_time_slot, !.appointment_saved = kwargs.appointment_saved, !.last_message_time = now]} :
              /\ contexts' = Put(contexts, user_id, context)
              /\ contextFiles' = _save_context_to_file(contextFiles, user_id, context, ioFault)
              /\ persisted' = [persisted EXCEPT ![user_id] = Some(context)]
              /\ fromFile' = IF ContextSource(contexts, contextFiles, user_id) = "file" THEN fromFile \cup {user_id} ELSE fromFile
              /\ escaped' = None
  /\ UNCHANGED <<threads, historyFiles, appointmentsFile, now, recorderCalls, turns, arrivals, call, returned, ioFault, reply>>

\* context_manager.py: save_conversation, called on its own
SaveConversation(ext, user_message, bot_response) ==
  /\ \E user_id \in {CleanUserId(ext)} :
       /\ Len(arrivals[user_id]) < MaxAppends
       /\ IF GetContextRaises(contexts, contextFiles, user_id, ioFault)
          THEN escaped' = Some("OSError") /\ UNCHANGED <<threads, contexts, historyFiles, arrivals, fromFile>>
          ELSE \E context \in {get_context(contexts, contextFiles, user_id, now)} :
               \E entry \in {HistoryEntry(now, user_message, bot_response, context)} :
                 /\ contexts' = Put(contexts, user_id, context)
                 /\ historyFiles' = _append_to_history_file(historyFiles, user_id, entry, ioFault)
                 /\ arrivals' = [arrivals EXCEPT ![user_id] = Append(@, entry)]
                 /\ fromFile' = IF ContextSource(contexts, contextFiles, user_id) = "file" THEN fromFile \cup {user_id} ELSE fromFile
                 /\ escaped' = None
  /\ UNCHANGED <<threads, contextFiles, appointmentsFile, now, recorderCalls, turns, persisted, call, returned, ioFault, reply>>

\* context_manager.py: get_recent_history(user_id, limit)
GetRecentHistory(ext, limit) ==
  /\ call' = Some([op |-> "get_recent_history", user_id |-> ext, limit |-> limit])
  /\ \E user_id \in {CleanUserId(ext)} :
       IF LoadHistoryRaises(historyFiles, user_id, ioFault)
       THEN escaped' = Some("OSError") /\ returned' = None
       ELSE escaped' = None /\ returned' = Some(_load_recent_history(historyFiles, user_id, limit))
  /\ UNCHANGED <<threads, contexts, contextFiles, historyFiles, appointmentsFile, now, recorderCalls, turns, arrivals, persisted, fromFile, ioFault, reply>>

\* CleanupOldContexts that also removes a context as old as the cutoff
CleanupOldContexts_Inclusive(days) ==
  LET cutoff_date == now - days
      to_remove == {u \in DOMAIN contexts : contexts[u].last_message_time <= cutoff_date}
  IN /\ contexts' = [u \in (DOMAIN contexts) \ to_remove |-> contexts[u]]
     /\ fromFile' = fromFile \ to_remove
     /\ escaped' = None
     /\ UNCHANGED <<threads, contextFiles, historyFiles, appointmentsFile, now, recorderCalls, turns, arrivals, persisted, call, returned, ioFault, reply>>

\* context_manager.py: cleanup_old_contexts
CleanupOldContexts(days) ==
  LET cutoff_date == now - days
      to_remove == {u \in DOMAIN contexts : contexts[u].last_message_time < cutoff_date}
  IN /\ contexts' = [u \in (DOMAIN contexts) \ to_remove |-> contexts[u]]
     /\ fromFile' = fromFile \ to_remove
     /\ escaped' = None
     /\ UNCHANGED <<threads, contextFiles, historyFiles, appointmentsFile, now, recorderCalls, turns, arrivals, persisted, call, returned, ioFault, reply>>

\* the process ends and a new one starts: a new ContextManager, same disk
Restart ==
  /\ contexts' = EmptyMap
  /\ fromFile' = {}
  /\ escaped' = None
  /\ UNCHANGED <<threads, contextFiles, historyFiles, appointmentsFile, now, recorderCalls, turns, arrivals, persisted, call, returned, ioFault, reply>>

Tick ==
  /\ now < MaxNow
  /\ now' = now + 1
  /\ UNCHANGED <<threads, contexts, contextFiles, historyFiles, appointmentsFile, recorderCalls, turns, arrivals, persisted, fromFile, call, returned, ioFault, escaped, reply>>

\* the disk starts or stops failing
SetFault(fault) ==
  /\ fault # ioFault
  /\ ioFault' = fault
  /\ UNCHANGED <<threads, contexts, contextFiles, historyFiles, appointmentsFile, now, recorderCalls, turns, arrivals, persisted, fromFile, call, returned, escaped, reply>>

\* something other than the program leaves a malformed snapshot in the
\* place of a user's snapshot
CorruptSnapshot(user_id, data) ==
  /\ user_id \in DOMAIN contextFiles
  /\ contextFiles' = Put(contextFiles, user_id, data)
  /\ UNCHANGED <<threads, contexts, historyFiles, appointmentsFile, now, recorderCalls, turns, arrivals, persisted, fromFile, call, returned, ioFault, escaped, reply>>

\* appointment_service.py: analyze_intent, called on its own
AnalyzeIntent ==
  /\ IsSome(call) /\ Get(call).op = "analyze_intent" /\ returned = None
  /\ returned' = Some(analyze_intent(Get(call).message, Get(call).context, Get(call).llm))
  /\ UNCHANGED <<threads, contexts, contextFiles, historyFiles, appointmentsFile, now, recorderCalls, turns, arrivals, persisted, fromFile, call, ioFault, escaped, reply>>

\* appointment_service.py: _fallback_intent_analysis, called on its own
FallbackIntentAnalysis ==
  /\ IsSome(call) /\ Get(call).op = "_fallback_intent_analysis" /\ returned = None
  /\ returned' = Some(_fallback_intent_analysis(Get(call).message, Get(call).context))
  /\ UNCHANGED <<threads, contexts, contextFiles, historyFiles, appointmentsFile, now, recorderCalls, turns, arrivals, persisted, fromFile, call, ioFault, escaped, reply>>

\* appointment_service.py: sanitize_llm_json_response, called on its own
Sanitize ==
  /\ IsSome(call) /\ Get(call).op = "sanitize_llm_json_response" /\ returned = None
  /\ returned' = Some(sanitize_llm_json_response(Get(call).response))
  /\ UNCHANGED <<threads, contexts, contextFiles, historyFiles, appointmentsFile, now, recorderCalls, turns, arrivals, persisted, fromFile, call, ioFault, escaped, reply>>

Next ==
  \/ \E ext \in ExternalIds, m \in Messages, g \in BOOLEAN : \E llm \in LLMOutcomes(m) : ProcessMessage(ext, m, llm, g)
  \/ \E ext \in ExternalIds : GetContextSummary(ext)
  \/ \E ext \in ExternalIds : ResetContext(ext)
  \/ Restart

\* the turns of the chatbot, with resets and restarts in between
Spec == Init /\ [][Next]_vars

NextStore ==
  \/ \E ext \in ExternalIds, kwargs \in UpdateKwargs : UpdateContext(ext, kwargs)
  \/ \E ext \in ExternalIds : GetContextSummary(ext)
  \/ \E ext \in ExternalIds : ResetContext(ext)
  \/ \E days \in CleanupDays : CleanupOldContexts(days)
  \/ Restart
  \/ Tick

\* the context store used on its own
SpecStore == Init /\ [][NextStore]_vars

NextHistory ==
  \/ \E ext \in ExternalIds : SaveConversation(ext, M_book, Generated)
  \/ Tick

\* the history log filled by save_conversation alone
SpecHistory == Init /\ [][NextHistory]_vars

\* ------------------------------------------------------------------------
\* The store and the turn handler on a disk that may fail
\* ------------------------------------------------------------------------
MaxFaultAppends == 1

FaultMessages == {M_book}

FaultKwargs ==
  {[state |-> "COMPLETED", city |-> Some(T_Jeddah), selected_center |-> Some(SERVICE_CENTERS[1][1]), selected_time_slot |-> Some(AVAILABLE_TIME_SLOTS[1]), appointment_saved |-> TRUE]}

HistoryLimits == {3}

\* malformed snapshots: text that is not JSON, JSON that is not an object,
\* an object with an unknown state value, an object with a bad timestamp
MalformedSnapshots(user_id) ==
  {RawFile(<<"{", "\"", "u", "s", "e", "r", "_", "i", "d", "\"", ":", " ">>), RawFile(<<>>), RawFile(<<"4", "2">>), RawFile(<<"[", "1", "]">>),
   [ContextDict(AppointmentContext(user_id, 0)) EXCEPT !.state = "paused", !.city = Some(T_Jeddah)],
   [ContextDict(AppointmentContext(user_id, 0)) EXCEPT !.state = "waiting_location", !.last_message_time = <<"yesterday", 0>>]}

\* one outcome of the generation call per message: the mapping recovered
\* for it when there is one, else the call raises
FaultOutcomes(m) == IF Analyses(m) = {} THEN {[kind |-> "raise"]} ELSE Analyses(m)

NextFaults ==
  \/ \E ext \in ExternalIds, m \in FaultMessages, g \in BOOLEAN : \E llm \in FaultOutcomes(m) : ProcessMessage(ext, m, llm, g)
  \/ \E ext \in ExternalIds : GetContextSummary(ext)
  \/ \E ext \in ExternalIds : ResetContext(ext)
  \/ \E ext \in ExternalIds, kwargs \in FaultKwargs : UpdateContext(ext, kwargs)
  \/ \E ext \in ExternalIds : Len(arrivals[CleanUserId(ext)]) < MaxFaultAppends /\ SaveConversation(ext, M_book, Generated)
  \/ \E ext \in ExternalIds, limit \in HistoryLimits : GetRecentHistory(ext, limit)
  \/ Restart
  \/ \E fault \in IoFaults : SetFault(fault)

\* the chatbot and the store while reads or writes of the disk fail
SpecFaults == Init /\ [][NextFaults]_vars

NextMalformed ==
  \/ \E ext \in ExternalIds, m \in FaultMessages, g \in BOOLEAN : \E llm \in LLMOutcomes(m) : ProcessMessage(ext, m, llm, g)
  \/ \E ext \in ExternalIds : GetContextSummary(ext)
  \/ \E ext \in ExternalIds : ResetContext(ext)
  \/ \E ext \in ExternalIds, kwargs \in FaultKwargs : UpdateContext(ext, kwargs)
  \/ Restart
  \/ Tick
  \/ \E user_id \in Users : \E data \in MalformedSnapshots(user_id) : CorruptSnapshot(user_id, data)

\* the chatbot and the store while snapshots get damaged
SpecMalformed == Init /\ [][NextMalformed]_vars

\* ------------------------------------------------------------------------
\* The store addressed under several forms of a user's id
\* ------------------------------------------------------------------------
AllUsers == {<<"U", "1">>, <<"U", "2">>}

\* ids as transports hand them in: bare, with one prefix, with two
AllExternalIds == {<<"U", "1">>, <<"w", "h", "a", "t", "s", "a", "p", "p", ":", "U", "1">>, <<"U", "2">>, <<"s", "m", "s", ":", "w", "h", "a", "t", "s", "a", "p", "p", ":", "U", "2">>}

InitIds ==
  /\ contexts = EmptyMap
  /\ contextFiles = EmptyMap
  /\ historyFiles = EmptyMap
  /\ appointmentsFile = None
  /\ now = 0
  /\ recorderCalls = [u \in AllUsers |-> 0]
  /\ turns = 0
  /\ arrivals = [u \in AllUsers |-> <<>>]
  /\ persisted = [u \in AllUsers |-> None]
  /\ fromFile = {}
  /\ call = None
  /\ returned = None
  /\ ioFault = "none"
  /\ escaped = None
  /\ reply = None
  /\ threads = EmptyMap

\* the message of a saved turn is the id it came in under, so that the log
\* shows which id wrote an entry
NextIds ==
  \/ \E ext \in AllExternalIds : GetContextSummary(ext)
  \/ \E ext \in AllExternalIds : ResetContext(ext)
  \/ \E ext \in AllExternalIds, kwargs \in FaultKwargs : UpdateContext(ext, kwargs)
  \/ \E ext \in AllExternalIds : Len(arrivals[CleanUserId(ext)]) < MaxFaultAppends /\ SaveConversation(ext, ext, Generated)
  \/ \E ext \in AllExternalIds, limit \in HistoryLimits : GetRecentHistory(ext, limit)
  \/ Restart

\* the operations of the store, each under every form of two users' ids
SpecIds == InitIds /\ [][NextIds]_vars

\* ------------------------------------------------------------------------
\* The cache of two users, aged and cleaned up
\* ------------------------------------------------------------------------
NextCleanup ==
  \/ \E ext \in AllExternalIds, kwargs \in FaultKwargs : UpdateContext(ext, kwargs)
  \/ \E ext \in AllExternalIds : GetContextSummary(ext)
  \/ \E ext \in AllExternalIds : Len(arrivals[CleanUserId(ext)]) < MaxFaultAppends /\ SaveConversation(ext, M_book, Generated)
  \/ \E days \in CleanupDays : CleanupOldContexts(days)
  \/ Tick

\* contexts of two users that are touched at different times, then cleaned
\* up, in one process: only a clean-up takes a context out of the cache
SpecCleanup == InitIds /\ [][NextCleanup]_vars

\* ------------------------------------------------------------------------
\* Bookings while writes of the disk may fail
\* ------------------------------------------------------------------------
RecorderMessages == {M_book, M_confirm}

NextRecorder ==
  \/ \E ext \in ExternalIds, m \in RecorderMessages : \E llm \in FaultOutcomes(m) : ProcessMessage(ext, m, llm, FALSE)
  \/ \E ext \in ExternalIds : ResetContext(ext)
  \/ \E fault \in {"none", "write"} : SetFault(fault)

\* turns that book and confirm, in one process, on a disk whose writes fail
\* at times
SpecRecorder == Init /\ [][NextRecorder]_vars

\* ---- get_recent_history with every limit, on histories of every length

MaxRecentAppends == 4

RecentLimits == {0, 1, 2, 3}

NextRecent ==
  \/ \E ext \in ExternalIds : Len(arrivals[CleanUserId(ext)]) < MaxRecentAppends /\ SaveConversation(ext, M_book, Generated)
  \/ \E ext \in ExternalIds, limit \in RecentLimits : GetRecentHistory(ext, limit)
  \/ Tick

SpecRecent == Init /\ [][NextRecent]_vars

\* ---- turns whose intent always comes from the keyword fallback

MaxFallbackTurns == 4

FallbackMessages == {M_book, M_downtown, M_10am, M_confirm}

\* a process_message call in which the generation call of intent analysis
\* raises
FallbackTurn(ext, user_message, generationRaises) ==
  /\ turns < MaxFallbackTurns
  /\ process_message(ext, user_message, [kind |-> "raise"], generationRaises)

NextFallback == \E ext \in ExternalIds, m \in FallbackMessages, generationRaises \in BOOLEAN : FallbackTurn(ext, m, generationRaises)

SpecFallback == Init /\ [][NextFallback]_vars

\* ---- update_context_state on its own, called with intents of every label

\* appointment_service.py lines 521-584 on the cached context of the user;
\* call keeps the context as it was and the intent of the latest call
UpdateContextState(ext, intent) ==
  /\ \E user_id \in {CleanUserId(ext)} :
     \E before \in {get_context(contexts, contextFiles, user_id, now)} :
     \E ready \in {BeforeRecord(before, intent)} :
       /\ contexts' = Put(contexts, user_id, update_context_state(before, intent, now))
       /\ appointmentsFile' = IF ShouldRecord(ready) THEN _record_appointment(appointmentsFile, ready, now, ioFault) ELSE appointmentsFile
       /\ recorderCalls' = IF ShouldRecord(ready) THEN [recorderCalls EXCEPT ![user_id] = @ + 1] ELSE recorderCalls
       /\ call' = Some([context |-> before, intent |-> intent])
  /\ UNCHANGED <<threads, contextFiles, historyFiles, now, turns, arrivals, persisted, fromFile, returned, ioFault, escaped, reply>>

T_empty == <<>>

T_jeddah == <<"j", "e", "d", "d", "a", "h">>

T_lucid == <<"l", "u", "c", "i", "d">>

T_NORTH == <<"N", "O", "R", "T", "H">>

T_west == <<"w", "e", "s", "t">>

T_at10am == <<"a", "t", " ", "1", "0", " ", "a", "m">>

T_noon == <<"n", "o", "o", "n">>

T_PM == <<"P", "M">>

\* what an intent carries beside its label: city, center preference, time
\* preference
FieldChoices ==
  {<<Some(T_Riyadh), None, None>>, <<Some(T_jeddah), None, None>>, <<None, Some(T_NORTH), None>>, <<None, Some(T_lucid), None>>,
   <<None, None, Some(T_at10am)>>, <<Some(T_Riyadh), Some(T_NORTH), Some(T_at10am)>>, <<None, Some(T_lucid), Some(T_PM)>>}

\* the intents of the calls: every label with no field, the labels booking,
\* confirmation and other with each choice of fields, a time selection with
\* and without a center preference, a center selection with a preference
\* that matches and one that does not, a location and a greeting with a
\* city, and fields that are
\* the empty string, an unknown city, a preference no center of the two
\* cities has and a time no slot has
StateIntents ==
  {IntentAnalysis(label, None, None, None, 80) : label \in KnownIntents}
  \cup {IntentAnalysis(label, f[1], f[3], f[2], 80) : label \in {L_booking, L_confirmation, L_other}, f \in FieldChoices}
  \cup {IntentAnalysis(L_time_selection, None, time_preference, center_preference, 80) : time_preference \in {Some(T_at10am), Some(T_noon)}, center_preference \in {None, Some(T_NORTH), Some(T_west)}}
  \cup {IntentAnalysis(L_center_selection, None, None, center_preference, 80) : center_preference \in {Some(T_NORTH), Some(T_west)}}
  \cup {IntentAnalysis(label, city, None, None, 80) : label \in {L_location, L_greeting}, city \in {Some(T_Riyadh), Some(T_Dubai)}}
  \cup {IntentAnalysis(L_other, city, None, None, 80) : city \in {Some(T_empty), Some(T_Dubai)}}
  \cup {IntentAnalysis(L_other, None, None, center_preference, 80) : center_preference \in {Some(T_empty), Some(T_west)}}
  \cup {IntentAnalysis(L_other, None, time_preference, None, 80) : time_preference \in {Some(T_empty), Some(T_noon)}}

NextStates == \E ext \in ExternalIds, intent \in StateIntents : UpdateContextState(ext, intent)

SpecStates == Init /\ [][NextStates]_vars

\* ---- process_message calls that run concurrently (main.py serves each
\* request of /webhook and /chat on a thread of its own and every request
\* uses the one chatbot of get_chatbot; no file of the program holds a lock).
\* A call is split where it reads or writes state that other calls reach:
\* the appointment log, the history file, the cached context object.

Threads == {1, 2}

\* a thread that has not been given its request yet
NotStarted == [pc |-> "idle", user_id |-> None, user_message |-> None, llm |-> None, generationRaises |-> FALSE, row |-> None, write_header |-> FALSE, history_data |-> None, entry |-> None, response |-> None]

InitThreads ==
  /\ contexts = EmptyMap
  /\ contextFiles = EmptyMap
  /\ historyFiles = EmptyMap
  /\ appointmentsFile = None
  /\ now = 0
  /\ recorderCalls = [u \in AllUsers |-> 0]
  /\ turns = 0
  /\ arrivals = [u \in AllUsers |-> <<>>]
  /\ persisted = [u \in AllUsers |-> None]
  /\ fromFile = {}
  /\ call = None
  /\ returned = None
  /\ ioFault = "none"
  /\ escaped = None
  /\ reply = None
  /\ threads = [t \in Threads |-> NotStarted]

\* lines 605-609 of appointment_service.py: open("a") and the rows written
\* through it, the header among them when write_header was found true
AppendRows(file, write_header, row) ==
  Some((IF IsSome(file) THEN Get(file) ELSE <<>>) \o (IF write_header THEN <<CsvHeader>> ELSE <<>>) \o <<row>>)

\* chatbot.py lines 58-66 and update_context_state down to line 604:
\* get_context, the analysis, the fields and state of the turn written into
\* the cached context object, and, when the turn records, the row and
\* write_header = not appointments_file.exists()
TurnStart(t, ext, user_message, llm, generationRaises) ==
  /\ threads[t].pc = "idle"
  /\ turns' = turns + 1
  /\ \E user_id \in {CleanUserId(ext)} :
     \E before \in {get_context(contexts, contextFiles, user_id, now)} :
     \E intent \in {analyze_intent(user_message, before, llm)} :
     \E ready \in {BeforeRecord(before, intent)} :
       /\ contexts' = Put(contexts, user_id, IF ShouldRecord(ready) THEN ready ELSE [ready EXCEPT !.last_message_time = now])
       /\ threads' = [threads EXCEPT ![t] = [@ EXCEPT !.pc = IF ShouldRecord(ready) THEN "record" ELSE "respond", !.user_id = Some(user_id), !.user_message = Some(user_message), !.llm = Some(llm), !.generationRaises = generationRaises, !.row = IF ShouldRecord(ready) THEN Some(AppointmentRow(ready, now)) ELSE None, !.write_header = ShouldRecord(ready) /\ ~IsSome(appointmentsFile)]]
       /\ fromFile' = IF ContextSource(contexts, contextFiles, user_id) = "file" THEN fromFile \cup {user_id} ELSE fromFile
  /\ UNCHANGED <<contextFiles, historyFiles, appointmentsFile, now, recorderCalls, arrivals, persisted, call, returned, ioFault, escaped, reply>>

\* appointment_service.py lines 605-609 and 581-584: the write to the log,
\* then appointment_saved and last_message_time on the context object
TurnRecord(t) ==
  /\ threads[t].pc = "record"
  /\ \E user_id \in {Get(threads[t].user_id)} :
       /\ appointmentsFile' = AppendRows(appointmentsFile, threads[t].write_header, Get(threads[t].row))
       /\ contexts' = [contexts EXCEPT ![user_id] = [@ EXCEPT !.appointment_saved = TRUE, !.last_message_time = now]]
       /\ recorderCalls' = [recorderCalls EXCEPT ![user_id] = @ + 1]
  /\ threads' = [threads EXCEPT ![t] = [@ EXCEPT !.pc = "respond"]]
  /\ UNCHANGED <<contextFiles, historyFiles, now, turns, arrivals, persisted, fromFile, call, returned, ioFault, escaped, reply>>

\* the entry save_conversation builds for a thread's reply
ThreadEntry(t, response) == HistoryEntry(now, Get(threads[t].user_message), response, contexts[Get(threads[t].user_id)])

\* chatbot.py lines 69-80 and context_manager.py lines 32-50 and 157-170:
\* the reply is produced, save_conversation builds the entry and
\* _append_to_history_file reads the history file into history_data; a
\* generation that raises ends the call with the apology (lines 91-93)
TurnRespond(t) ==
  /\ threads[t].pc = "respond"
  /\ \E context \in {contexts[Get(threads[t].user_id)]} :
       IF ~IsConfirmed(context) /\ threads[t].generationRaises
       THEN threads' = [threads EXCEPT ![t] = [@ EXCEPT !.pc = "done", !.response = Some(Apology)]]
       ELSE \E response \in {IF IsConfirmed(context) THEN Confirmation(context) ELSE Generated} :
              threads' = [threads EXCEPT ![t] = [@ EXCEPT !.pc = "append", !.response = Some(response), !.entry = Some(ThreadEntry(t, response)), !.history_data = Some(ReadHistory(historyFiles, Get(threads[t].user_id), ioFault))]]
  /\ UNCHANGED <<contexts, contextFiles, historyFiles, appointmentsFile, now, recorderCalls, turns, arrivals, persisted, fromFile, call, returned, ioFault, escaped, reply>>

\* the history file a thread writes when the file is read again at the
\* moment of the write
WrittenHistory_Reread(t) == LastN(Append(ReadHistory(historyFiles, Get(threads[t].user_id), ioFault), Get(threads[t].entry)), HistoryLimit)

\* context_manager.py lines 173-189: the history file a thread writes, made
\* of the history_data it read and its entry
WrittenHistory(t) == LastN(Append(Get(threads[t].history_data), Get(threads[t].entry)), HistoryLimit)

\* context_manager.py lines 187-189: open("w") and json.dump; the call
\* returns the reply
TurnAppend(t) ==
  /\ threads[t].pc = "append"
  /\ \E user_id \in {Get(threads[t].user_id)} :
       /\ historyFiles' = Put(historyFiles, user_id, WrittenHistory(t))
       /\ arrivals' = [arrivals EXCEPT ![user_id] = Append(@, Get(threads[t].entry))]
  /\ threads' = [threads EXCEPT ![t] = [@ EXCEPT !.pc = "done"]]
  /\ UNCHANGED <<contexts, contextFiles, appointmentsFile, now, recorderCalls, turns, persisted, fromFile, call, returned, ioFault, escaped, reply>>

ThreadMessages == {M_book, M_confirm}

NextThreads ==
  \/ \E t \in Threads, ext \in AllUsers, m \in ThreadMessages, generationRaises \in BOOLEAN : \E llm \in FaultOutcomes(m) : TurnStart(t, ext, m, llm, generationRaises)
  \/ \E t \in Threads : TurnRecord(t)
  \/ \E t \in Threads : TurnRespond(t)
  \/ \E t \in Threads : TurnAppend(t)

SpecThreads == InitThreads /\ [][NextThreads]_vars

\* one call of intent analysis or of one of its two helpers, on any of the
\* messages, contexts and generation outcomes above
InitAnalyzer ==
  /\ StoreInit
  /\ returned = None
  /\ ioFault = "none"
  /\ escaped = None
  /\ reply = None
  /\ threads = EmptyMap
  /\ \/ \E message \in AnalyzerMessages, context \in AnalyzerContexts, llm \in AnalyzerOutcomes :
          call = Some([op |-> "analyze_intent", message |-> message, context |-> context, llm |-> llm])
     \/ \E message \in AnalyzerMessages, context \in AnalyzerContexts :
          call = Some([op |-> "_fallback_intent_analysis", message |-> message, context |-> context])
     \/ \E response \in Responses :
          call = Some([op |-> "sanitize_llm_json_response", response |-> response])

NextAnalyzer == AnalyzeIntent \/ FallbackIntentAnalysis \/ Sanitize

\* intent analysis and its two helpers, each called on its own
SpecAnalyzer == InitAnalyzer /\ [][NextAnalyzer]_vars

\* ------------------------------------------------------------------------
\* Properties
\* ------------------------------------------------------------------------
\* the context a turn of user u starts from
TurnBefore(u) == get_context(contexts, contextFiles, u, now)

\* the step is a process_message call
IsTurn == turns' = turns + 1

\* the step is a process_message call of u that returned a normal response
IsNormalTurn(u) == IsTurn /\ Len(arrivals'[u]) = Len(arrivals[u]) + 1

\* the place of a state in the booking funnel
Rank(st) == CASE st = "INITIAL" -> 0
              [] st = "WAITING_LOCATION" -> 1
              [] st = "WAITING_CENTER_SELECTION" -> 2
              [] st = "WAITING_TIME_SLOT" -> 3
              [] st = "CONFIRMING_APPOINTMENT" -> 4
              [] st = "COMPLETED" -> 5

RiyadhDowntown == SERVICE_CENTERS[1][1]

Slot10amJuly17 == AVAILABLE_TIME_SLOTS[1]

\* C1: for a user that was never reset, the Recorder has been invoked at
\* most once, and the cached context has appointment_saved set exactly when
\* the Recorder has been invoked for the user.
C1_ExactlyOnce ==
  \A u \in Users : persisted[u] = None =>
    /\ recorderCalls[u] <= 1
    /\ u \in DOMAIN contexts => (contexts[u].appointment_saved <=> recorderCalls[u] >= 1)

\* C2: after every turn that returns a normal response the snapshot on disk
\* holds the context as the turn left it, so that a get_context after the
\* loss of the cache would return the same booking fields.
C2_TurnPersists ==
  [][\A u \in Users : IsNormalTurn(u) =>
       Core(get_context(EmptyMap, contextFiles', u, now')) = Core(contexts'[u])]_vars

\* C3: while a context stays in the cache appointment_saved never goes back
\* from true to false unless the context is replaced by the fresh one of a
\* reset, and a turn sets it only with the state COMPLETED and both a center
\* and a time slot selected.
C3_SavedOnce ==
  [][\A u \in Users :
       /\ (u \in DOMAIN contexts /\ u \in DOMAIN contexts' /\ contexts[u].appointment_saved /\ ~contexts'[u].appointment_saved)
            => contexts'[u] = AppointmentContext(u, now)
       /\ (IsTurn /\ u \in DOMAIN contexts' /\ ~TurnBefore(u).appointment_saved /\ contexts'[u].appointment_saved)
            => (contexts'[u].state = "COMPLETED" /\ IsSome(contexts'[u].selected_center) /\ IsSome(contexts'[u].selected_time_slot))]_vars

\* C3 witness: a saved context that a later turn moved away from COMPLETED
C3_Witness ==
  \E u \in DOMAIN contexts : contexts[u].appointment_saved /\ contexts[u].state # "COMPLETED" /\ recorderCalls[u] = 1

\* C4: with Riyadh known, Riyadh Downtown selected and the state
\* WAITING_TIME_SLOT, the turn with the message "10 AM" (analysed as a time
\* selection with that preference) selects 10 AM on July 17th, completes
\* the booking, invokes the Recorder once and sets appointment_saved.
C4_TenAmCompletes ==
  [][\A ext \in ExternalIds, g \in BOOLEAN :
       LET u == CleanUserId(ext) IN
       (/\ IsTurn
        /\ u \in DOMAIN contexts
        /\ contexts[u].state = "WAITING_TIME_SLOT"
        /\ contexts[u].city = Some(T_Riyadh)
        /\ contexts[u].selected_center = Some(RiyadhDowntown)
        /\ contexts[u].selected_time_slot = None
        /\ ProcessMessage(ext, M_10am, [kind |-> "raise"], g))
       => (/\ contexts'[u].selected_time_slot = Some(Slot10amJuly17)
           /\ contexts'[u].state = "COMPLETED"
           /\ recorderCalls'[u] = recorderCalls[u] + 1
           /\ contexts'[u].appointment_saved)]_vars

\* C5: from a fresh context the turn "I need to book a service in Riyadh",
\* analysed as booking with city Riyadh, sets the city and moves to
\* WAITING_CENTER_SELECTION; from there the turn "downtown", analysed as a
\* center selection with preference "downtown", selects Riyadh Downtown and
\* moves to WAITING_TIME_SLOT.
C5_BookThenDowntown ==
  [][\A ext \in ExternalIds, g \in BOOLEAN :
       LET u == CleanUserId(ext) IN
       /\ (/\ IsTurn
           /\ Core(TurnBefore(u)) = Core(AppointmentContext(u, now))
           /\ analyze_intent(M_book, TurnBefore(u), [kind |-> "raise"]) = IntentAnalysis(L_booking, Some(T_Riyadh), None, None, 80)
           /\ ProcessMessage(ext, M_book, [kind |-> "raise"], g))
          => (/\ contexts'[u].city = Some(T_Riyadh)
              /\ contexts'[u].state = "WAITING_CENTER_SELECTION"
              /\ contexts'[u].selected_center = None)
       /\ (/\ IsTurn
           /\ u \in DOMAIN contexts
           /\ contexts[u].state = "WAITING_CENTER_SELECTION"
           /\ contexts[u].city = Some(T_Riyadh)
           /\ contexts[u].selected_center = None
           /\ ProcessMessage(ext, M_downtown, LLMData(Some(L_center_selection), None, None, Some(T_downtown)), g))
          => (/\ contexts'[u].selected_center = Some(RiyadhDowntown)
              /\ contexts'[u].state = "WAITING_TIME_SLOT")]_vars

\* C5 witness: the two turns of the scenario are in the history, in order,
\* and the context is where the second one left it
C5_Witness ==
  \E u \in DOMAIN contexts :
    /\ u \in DOMAIN historyFiles
    /\ Len(historyFiles[u]) = 2
    /\ historyFiles[u][1].user_message = M_book
    /\ historyFiles[u][1].context = [state |-> "waiting_center_selection", city |-> Some(T_Riyadh), has_selected_center |-> FALSE, has_selected_time |-> FALSE]
    /\ historyFiles[u][2].user_message = M_downtown
    /\ historyFiles[u][2].context = [state |-> "waiting_time_slot", city |-> Some(T_Riyadh), has_selected_center |-> TRUE, has_selected_time |-> FALSE]
    /\ contexts[u].selected_center = Some(RiyadhDowntown)
    /\ contexts[u].state = "WAITING_TIME_SLOT"

\* C6: a context whose city has exactly one center in the directory is
\* never left in WAITING_CENTER_SELECTION.
C6_SingleCenterShortcut ==
  \A u \in DOMAIN contexts :
    (IsSome(contexts[u].city) /\ Len(get_service_centers_by_city(Get(contexts[u].city))) = 1)
      => contexts[u].state # "WAITING_CENTER_SELECTION"

\* C7: the city of a context, when set, is a city of the service-center
\* directory.
C7_CityInDirectory ==
  \A u \in DOMAIN contexts :
    IsSome(contexts[u].city) => \E i \in 1..Len(CityKeys) : CityKeys[i] = Lower(Get(contexts[u].city))

\* C8: no turn moves the state to an earlier stage of the funnel.
C8_NoBackwardTransition ==
  [][\A u \in Users : (IsTurn /\ u \in DOMAIN contexts') => Rank(contexts'[u].state) >= Rank(TurnBefore(u).state)]_vars

\* C9: a get_context that has to go to the disk returns the booking fields
\* of the context last persisted for the user.
C9_RoundTrip ==
  [][\A u \in Users :
       (u \notin DOMAIN contexts /\ u \in DOMAIN contexts' /\ IsSome(persisted[u]) /\ persisted' = persisted)
         => Core(contexts'[u]) = Core(Get(persisted[u]))]_vars

\* C9 witness: the scenario of the specification, reloaded from its snapshot
C9_Witness ==
  \E u \in fromFile :
    /\ contexts[u].state = "WAITING_TIME_SLOT"
    /\ contexts[u].city = Some(T_Jeddah)
    /\ contexts[u].appointment_saved
    /\ IsSome(contexts[u].selected_center)
    /\ Core(contexts[u]) = Core(Get(persisted[u]))

Min(a, b) == IF a < b THEN a ELSE b

\* C10: after n appends the history of a user holds the last min(n, 50)
\* entries appended, in the order they arrived.
C10_HistoryBounded ==
  \A u \in Users :
    LET n == Len(arrivals[u])
    IN IF n = 0 THEN u \notin DOMAIN historyFiles
       ELSE /\ Len(historyFiles[u]) = Min(n, HistoryLimit)
            /\ historyFiles[u] = SubSeq(arrivals[u], n - Min(n, HistoryLimit) + 1, n)

\* C10 witness: 60 appends, 50 entries left, the oldest of them the 11th
\* to arrive, which came later than the 10th
C10_Witness ==
  \E u \in Users :
    /\ Len(arrivals[u]) = 60
    /\ Len(historyFiles[u]) = 50
    /\ historyFiles[u][1] = arrivals[u][11]
    /\ arrivals[u][10].timestamp # arrivals[u][11].timestamp


\* ------------------------------------------------------------------------
\* Intent analysis
\* ------------------------------------------------------------------------
\* the latest call was of the function op
Called(op) == IsSome(call) /\ Get(call).op = op

\* a well-formed IntentAnalysis: a label, three optional texts, a confidence
IsIntentAnalysis(a) ==
  /\ DOMAIN a = {"intent", "city", "time_preference", "center_preference", "confidence"}
  /\ a.intent # <<>>
  /\ \A f \in {a.city, a.time_preference, a.center_preference} : f = None \/ (Len(f) = 1 /\ f[1] # <<>>)
  /\ a.confidence \in Int

\* the generation call raised, or no mapping was recovered from its text,
\* or typed construction of the cleaned mapping failed
AnalysisFails(llm) ==
  \/ llm.kind = "raise"
  \/ /\ llm.kind = "text"
     /\ \E json_data \in {sanitize_llm_json_response(llm.response)} :
          \/ json_data.t = "none"
          \/ json_data.t # "dict"
          \/ ~ValidationOk(CleanedData(json_data.v))

\* C11: analyze_intent returns an IntentAnalysis for every message and
\* context, and when the generation call raises, recovery of the response
\* fails or typed construction fails, the value returned is exactly the
\* keyword fallback's result for that message and context.
C11_AnalyzeTotal ==
  (Called("analyze_intent") /\ IsSome(returned)) =>
    /\ IsIntentAnalysis(Get(returned))
    /\ AnalysisFails(Get(call).llm) => Get(returned) = _fallback_intent_analysis(Get(call).message, Get(call).context)

\* typed construction failed (confidence "high") and the booking analysis
\* of the keyword fallback came back
C11_Witness ==
  /\ Called("analyze_intent")
  /\ Get(call).llm = LLMText(<<"{", "\"", "i", "n", "t", "e", "n", "t", "\"", ":", " ", "\"", "b", "o", "o", "k", "i", "n", "g", "\"", ",", " ", "\"", "c", "o", "n", "f", "i", "d", "e", "n", "c", "e", "\"", ":", " ", "\"", "h", "i", "g", "h", "\"", "}">>)
  /\ Get(call).message = M_makkah
  /\ Get(call).context.state = "WAITING_TIME_SLOT"
  /\ returned = Some(IntentAnalysis(L_location, Some(T_Makkah), None, None, 70))

\* C12: every IntentAnalysis analyze_intent returns carries one of the
\* seven known labels (a generated label outside the set is rejected and
\* the fallback result returned).
C12_KnownLabel == (Called("analyze_intent") /\ IsSome(returned)) => Get(returned).intent \in KnownIntents

\* the rule of the keyword fallback that applies to a message and a state,
\* read as the priority list: 1 booking, 2 greeting, 3 location, 4 time
\* selection, 5 other
FallbackRule(message, state) ==
  LET lower == Lower(message)
  IN IF AnyKeyword(booking_keywords, lower) THEN 1
     ELSE IF AnyKeyword(greeting_keywords, lower) THEN 2
     ELSE IF IsSome(find_city_from_text(message)) \/ state = "WAITING_LOCATION" THEN 3
     ELSE IF AnyKeyword(time_keywords, lower) \/ state = "WAITING_TIME_SLOT" THEN 4
     ELSE 5

\* C13: the keyword fallback returns exactly one IntentAnalysis, decided by
\* the first rule that applies: booking keyword -> booking (0.8, city by
\* directory match); greeting keyword -> greeting (0.9); city found or
\* state WAITING_LOCATION -> location (0.7); time keyword or state
\* WAITING_TIME_SLOT -> time_selection with the whole message (0.7); else
\* other (0.5).  Its label is always one of the known labels.
C13_FallbackPriority ==
  (Called("_fallback_intent_analysis") /\ IsSome(returned)) =>
    \E message \in {Get(call).message} : \E rule \in {FallbackRule(message, Get(call).context.state)} : \E a \in {Get(returned)} :
      /\ IsIntentAnalysis(a)
      /\ a.intent \in KnownIntents
      /\ rule = 1 => a = IntentAnalysis(L_booking, find_city_from_text(message), None, None, 80)
      /\ rule = 2 => a = IntentAnalysis(L_greeting, None, None, None, 90)
      /\ rule = 3 => a = IntentAnalysis(L_location, find_city_from_text(message), None, None, 70)
      /\ rule = 4 => a = IntentAnalysis(L_time_selection, None, Some(message), None, 70)
      /\ rule = 5 => a = IntentAnalysis(L_other, None, None, None, 50)

\* a message with a greeting and a booking keyword is a booking
C13_Witness ==
  /\ Called("_fallback_intent_analysis")
  /\ Get(call).message = <<"H", "e", "l", "l", "o", ",", " ", "c", "a", "n", " ", "I", " ", "s", "c", "h", "e", "d", "u", "l", "e", " ", "m", "a", "i", "n", "t", "e", "n", "a", "n", "c", "e", "?">>
  /\ returned = Some(IntentAnalysis(L_booking, None, None, None, 80))

\* C14: sanitize_llm_json_response returns a mapping or None, never a
\* list, a number, a bare string or a boolean.
C14_MappingOrNone == (Called("sanitize_llm_json_response") /\ IsSome(returned)) => Get(returned).t \in {"dict", "none"}

\* C15: every mapping sanitize_llm_json_response returns has an intent
\* field (a text without a recognizable intent field gives None).
C15_IntentRequired ==
  (Called("sanitize_llm_json_response") /\ IsSome(returned) /\ Get(returned).t = "dict") => K.intent \in DOMAIN Get(returned).v

\* C16: process_message never raises.  Every turn returns a reply to its
\* caller and lets no exception out; a turn whose context load raises
\* returns the fixed apology and leaves the cache and the history as they
\* were; a turn returns the apology exactly when it saves no history entry,
\* and otherwise the entry it saves carries the reply.
C16_NeverRaises ==
  [][turns' = turns + 1 =>
       /\ escaped' = None
       /\ IsSome(reply')
       /\ \A u \in Users :
            /\ GetContextRaises(contexts, contextFiles, u, ioFault) =>
                 Get(reply').kind = "apology" /\ contexts' = contexts /\ historyFiles' = historyFiles
            /\ Get(reply').kind = "apology" <=> arrivals'[u] = arrivals[u]
            /\ Get(reply').kind # "apology" =>
                 /\ Len(arrivals'[u]) = Len(arrivals[u]) + 1
                 /\ arrivals'[u][Len(arrivals'[u])].bot_response.kind = Get(reply').kind]_vars

\* the second turn is served although the first one failed: it is answered
\* and its entry is the only one saved
C16_Witness ==
  /\ turns = 2
  /\ IsSome(reply) /\ Get(reply).kind = "generated"
  /\ escaped = None
  /\ \E u \in Users : Len(arrivals[u]) = 1

\* C17: persistence errors are swallowed.  No operation of the store
\* (get_context, update_context, reset_context, save_conversation,
\* get_recent_history) lets the error of a failed read or write of a
\* snapshot or a history file out to its caller.
C17_ErrorsSwallowed == escaped = None

\* the fields of a fresh default context
IsDefaultContext(context) ==
  /\ context.state = "INITIAL"
  /\ context.city = None
  /\ context.selected_center = None
  /\ context.selected_time_slot = None
  /\ context.appointment_saved = FALSE

\* a snapshot that is text, or holds an unknown state value or a bad
\* timestamp
IsMalformed(data) == IsRaw(data) \/ ~IsSome(StateFromValue(data.state)) \/ ~IsIsoFormat(data.last_message_time)

\* C18: when the snapshot of a user is malformed (not JSON, unknown state
\* value, bad timestamp), a get_context that finds the user not cached
\* returns a fresh default context without failing, and a persist for the
\* user replaces the malformed file with the well-formed snapshot of the
\* user's context.
C18_MalformedSnapshot ==
  [][\A u \in Users :
       /\ (u \in DOMAIN contextFiles /\ IsMalformed(contextFiles[u]) /\ u \notin DOMAIN contexts /\ u \in DOMAIN contexts') =>
            /\ escaped' = None
            /\ u \notin fromFile'
            /\ (contextFiles' = contextFiles /\ turns' = turns) => contexts'[u] = AppointmentContext(u, now) /\ IsDefaultContext(contexts'[u])
       /\ (u \in DOMAIN contextFiles /\ IsMalformed(contextFiles[u]) /\ (persisted'[u] # persisted[u] \/ ~IsMalformed(contextFiles'[u]))) =>
            /\ contextFiles'[u] = ContextDict(contexts'[u])
            /\ _load_context_from_file(contextFiles', u) = Some(contexts'[u])]_vars

\* a context created at time 1 for a user whose snapshot, written at time
\* 0, is malformed: get_context found the file and made a fresh context
C18_Witness ==
  \E u \in Users :
    /\ now = 1
    /\ u \in DOMAIN contextFiles /\ IsMalformed(contextFiles[u])
    /\ IsSome(persisted[u]) /\ Get(persisted[u]).last_message_time = 0
    /\ u \in DOMAIN contexts /\ contexts[u] = AppointmentContext(u, 1)
    /\ escaped = None

\* the canonical id of each id the store is addressed with: the text after
\* its last colon, the whole id when it has none
CanonicalId ==
  [ext \in AllExternalIds |->
     CASE ext = <<"U", "1">> -> <<"U", "1">>
       [] ext = <<"w", "h", "a", "t", "s", "a", "p", "p", ":", "U", "1">> -> <<"U", "1">>
       [] ext = <<"U", "2">> -> <<"U", "2">>
       [] ext = <<"s", "m", "s", ":", "w", "h", "a", "t", "s", "a", "p", "p", ":", "U", "2">> -> <<"U", "2">>]

\* what the store holds for a canonical id: cached context, snapshot,
\* history file
StoreSlot(cache, snapshots, histories, u) ==
  <<IF u \in DOMAIN cache THEN Some(cache[u]) ELSE None,
    IF u \in DOMAIN snapshots THEN Some(snapshots[u]) ELSE None,
    IF u \in DOMAIN histories THEN Some(histories[u]) ELSE None>>

\* a step of a store operation addressed with the id ext
StoreStep(ext) ==
  \/ GetContextSummary(ext)
  \/ ResetContext(ext)
  \/ \E kwargs \in FaultKwargs : UpdateContext(ext, kwargs)
  \/ SaveConversation(ext, ext, Generated)
  \/ \E limit \in HistoryLimits : GetRecentHistory(ext, limit)

\* C19: every operation of the store keys the user by the canonical id.
\* A step of get_context, update_context, reset_context or
\* save_conversation under one id is the same step under any id with the
\* same canonical id (the saved message apart); get_recent_history
\* returns the history of the canonical id; and an operation under an id
\* leaves the context, snapshot and history of every other canonical id
\* as they were and adds no key that is not a canonical id.
C19_CanonicalKey ==
  [][\A e1 \in AllExternalIds :
       /\ \A e2 \in AllExternalIds : CanonicalId[e1] = CanonicalId[e2] =>
            /\ GetContextSummary(e1) <=> GetContextSummary(e2)
            /\ ResetContext(e1) <=> ResetContext(e2)
            /\ \A kwargs \in FaultKwargs : UpdateContext(e1, kwargs) <=> UpdateContext(e2, kwargs)
            /\ SaveConversation(e1, e1, Generated) <=> SaveConversation(e2, e1, Generated)
       /\ \A limit \in HistoryLimits : GetRecentHistory(e1, limit) =>
            returned' = Some(_load_recent_history(historyFiles, CanonicalId[e1], limit))
       /\ StoreStep(e1) =>
            /\ \A u \in AllUsers \ {CanonicalId[e1]} :
                 StoreSlot(contexts', contextFiles', historyFiles', u) = StoreSlot(contexts, contextFiles, historyFiles, u)
            /\ (DOMAIN contexts') \cup (DOMAIN contextFiles') \cup (DOMAIN historyFiles') \subseteq AllUsers]_vars

\* the history asked for under the bare id U2 holds the turn saved under
\* the id sms:whatsapp:U2, and U1 has no history
C19_Witness ==
  /\ IsSome(call) /\ Get(call).op = "get_recent_history" /\ Get(call).user_id = <<"U", "2">>
  /\ IsSome(returned) /\ Len(Get(returned)) = 1
  /\ Get(returned)[1].user_message = <<"s", "m", "s", ":", "w", "h", "a", "t", "s", "a", "p", "p", ":", "U", "2">>
  /\ <<"U", "1">> \notin DOMAIN historyFiles

\* C20: after reset_context(u), whatever the context of u was, the cached
\* context and the snapshot of u are a fresh default context: get_context
\* returns it at once, and returns it again, read from the snapshot, once
\* the cache has been cleared.
C20_ResetDefault ==
  [][\A ext \in ExternalIds : ResetContext(ext) =>
       \E u \in {CleanUserId(ext)} :
         /\ IsDefaultContext(AppointmentContext(u, now))
         /\ get_context(contexts', contextFiles', u, now') = AppointmentContext(u, now)
         /\ ~GetContextRaises(EmptyMap, contextFiles', u, ioFault')
         /\ ContextSource(EmptyMap, contextFiles', u) = "file"
         /\ get_context(EmptyMap, contextFiles', u, now') = AppointmentContext(u, now)]_vars

\* after a reset at time 1: the cache and the snapshot hold the default
\* context made at time 1
C20_Witness ==
  \E u \in Users :
    /\ now = 1
    /\ u \in DOMAIN contexts /\ contexts[u] = AppointmentContext(u, 1)
    /\ u \in DOMAIN contextFiles /\ contextFiles[u] = ContextDict(AppointmentContext(u, 1))
    /\ persisted[u] = Some(AppointmentContext(u, 1))
    /\ u \notin fromFile

RECURSIVE Invocations(_, _)
Invocations(calls, S) == IF S = {} THEN 0 ELSE LET u == CHOOSE x \in S : TRUE IN calls[u] + Invocations(calls, S \ {u})

\* C22: the appointment log is append-only with a single header.  While
\* writes succeed, the log is absent until the first Recorder invocation;
\* an invocation into the absent log leaves the header row and one row,
\* any other invocation adds one row after the rows that were there, which
\* stay as they were; no other step changes the log; so the log holds the
\* header and one row per invocation, in invocation order.
C22_AppendOnlyLog ==
  [][/\ Invocations(recorderCalls', DOMAIN recorderCalls) = Invocations(recorderCalls, DOMAIN recorderCalls) => appointmentsFile' = appointmentsFile
     /\ \A u \in DOMAIN recorderCalls : recorderCalls'[u] = recorderCalls[u] + 1 =>
          /\ IsSome(appointmentsFile')
          /\ Get(appointmentsFile')[1] = CsvHeader
          /\ Len(Get(appointmentsFile')) = 1 + Invocations(recorderCalls', DOMAIN recorderCalls)
          /\ Get(appointmentsFile')[Len(Get(appointmentsFile'))] = AppointmentRow(contexts'[u], now)
          /\ IF IsSome(appointmentsFile)
             THEN SubSeq(Get(appointmentsFile'), 1, Len(Get(appointmentsFile')) - 1) = Get(appointmentsFile)
             ELSE Len(Get(appointmentsFile')) = 2]_vars

\* two invocations: the header and two rows
C22_Witness ==
  /\ IsSome(appointmentsFile)
  /\ Len(Get(appointmentsFile)) = 3
  /\ Invocations(recorderCalls, DOMAIN recorderCalls) = 2
  /\ Get(appointmentsFile)[1] = CsvHeader

\* C23: a write failure in the Recorder is swallowed and does not roll the
\* booking back.  A turn that invokes the Recorder while writes fail
\* leaves the log as it was, sets appointment_saved, raises nothing and
\* answers with the confirmation; and a turn that starts from a context
\* with appointment_saved set never invokes the Recorder, so the missing
\* row is not written later.
C23_FailedRecordingKept ==
  [][\A u \in Users :
       /\ (recorderCalls'[u] = recorderCalls[u] + 1 /\ ioFault = "write") =>
            /\ appointmentsFile' = appointmentsFile
            /\ contexts'[u].appointment_saved
            /\ contexts'[u].state = "COMPLETED"
            /\ escaped' = None
            /\ IsSome(reply') /\ Get(reply').kind = "confirmation"
       /\ (IsTurn /\ TurnBefore(u).appointment_saved) =>
            /\ recorderCalls'[u] = recorderCalls[u]
            /\ appointmentsFile' = appointmentsFile
            /\ contexts'[u].appointment_saved]_vars

\* after two turns the context is saved, the Recorder was invoked once and
\* there is no log: the recording failed and the second turn did not
\* repeat it
C23_Witness ==
  \E u \in Users :
    /\ turns = 2
    /\ u \in DOMAIN contexts /\ contexts[u].appointment_saved
    /\ recorderCalls[u] = 1
    /\ appointmentsFile = None
    /\ ioFault = "none"
    /\ IsSome(reply) /\ Get(reply).kind = "confirmation"

\* ---- concurrent turns against their serial executions

\* one whole process_message call on a store of contexts, histories and
\* log, as ProcessMessage makes it, for the request a thread was given
SerialFinish(store, th, ready, context) ==
  [contexts |-> Put(store.contexts, Get(th.user_id), context),
   appointmentsFile |-> IF ShouldRecord(ready) THEN _record_appointment(store.appointmentsFile, ready, now, "none") ELSE store.appointmentsFile,
   historyFiles |-> IF ~IsConfirmed(context) /\ th.generationRaises THEN store.historyFiles
                    ELSE _append_to_history_file(store.historyFiles, Get(th.user_id), HistoryEntry(now, Get(th.user_message), IF IsConfirmed(context) THEN Confirmation(context) ELSE Generated, context), "none")]

SerialAnalyzed(store, th, before, intent) == SerialFinish(store, th, BeforeRecord(before, intent), update_context_state(before, intent, now))

SerialLoaded(store, th, before) == SerialAnalyzed(store, th, before, analyze_intent(Get(th.user_message), before, Get(th.llm)))

SerialTurn(store, th) == SerialLoaded(store, th, get_context(store.contexts, contextFiles, Get(th.user_id), now))

\* the store the threads started from
StoreAtStart == [contexts |-> EmptyMap, appointmentsFile |-> None, historyFiles |-> EmptyMap]

\* the two serial executions of the threads' turns
SerialOutcomes == {SerialTurn(SerialTurn(StoreAtStart, threads[1]), threads[2]), SerialTurn(SerialTurn(StoreAtStart, threads[2]), threads[1])}

AllDone == \A t \in Threads : threads[t].pc = "done"

DifferentUsers == threads[1].user_id # threads[2].user_id

\* C24: when two process_message calls of users with different canonical
\* ids have run concurrently and both have returned, the contexts, the
\* histories and the appointment log are those of one of the two serial
\* executions of the two turns
C24_SerialOutcome ==
  (AllDone /\ DifferentUsers) => [contexts |-> contexts, appointmentsFile |-> appointmentsFile, historyFiles |-> historyFiles] \in SerialOutcomes

\* the part of it that holds: contexts and histories are those of a serial
\* execution
SerialButLog ==
  (AllDone /\ DifferentUsers) => \E s \in SerialOutcomes : s.contexts = contexts /\ s.historyFiles = historyFiles

\* C25: the history file is read and written back without a lock, so the
\* write of a turn is made of what that turn read: the file after it is the
\* history the turn read with its own entry at the end, whatever another
\* turn of the same user wrote in between (last write wins, the entry
\* written in between is lost).
C25_LastWriteWins ==
  [][\A t \in Threads :
       (threads[t].pc = "append" /\ threads'[t].pc = "done") =>
         /\ historyFiles'[Get(threads[t].user_id)] = LastN(Append(Get(threads[t].history_data), Get(threads[t].entry)), HistoryLimit)
         /\ Len(historyFiles'[Get(threads[t].user_id)]) = Len(Get(threads[t].history_data)) + 1]_vars

\* two turns of one user have both returned their reply and saved their
\* entry, and the history file holds one entry
C25_Witness ==
  /\ AllDone
  /\ ~DifferentUsers
  /\ \A t \in Threads : Get(threads[t].response).kind # "apology"
  /\ Len(arrivals[Get(threads[1].user_id)]) = 2
  /\ Len(historyFiles[Get(threads[1].user_id)]) = 1

\* ---- update_context_state, call by call

\* the context the latest update_context_state call was given, its intent,
\* and the context it left
Before == Get(call).context

Intent == Get(call).intent

After == contexts[Before.user_id]

\* the intent without its city
WithoutCity(intent) == [intent EXCEPT !.city = None]

\* C26: a city is adopted only into an empty field.  After every
\* update_context_state call: a context that had a city keeps it whatever
\* city the intent carried, and the call leaves exactly the context it
\* leaves for the same intent without a city (the restated city changes
\* nothing, the state included); a context that had no city gets the city
\* of the intent when it carries one and stays without a city otherwise.
C26_CityOnlyIntoEmptyField ==
  IsSome(call) =>
    /\ NonEmpty(Before.city) =>
         /\ After.city = Before.city
         /\ After = update_context_state(Before, WithoutCity(Intent), now)
    /\ ~NonEmpty(Before.city) => After.city = IF NonEmpty(Intent.city) THEN Intent.city ELSE Before.city

\* a call on a context of Riyadh with an intent that names Jeddah has left
\* the city Riyadh
C26_Witness ==
  /\ IsSome(call)
  /\ Before.city = Some(T_Riyadh)
  /\ Intent.city = Some(T_jeddah)
  /\ After.city = Some(T_Riyadh)

\* the name of the center contains the preference, case-insensitively
NameMatches(center, preference) == Contains(Lower(preference), Lower(center.name))

\* centers[i] is the first center of the list whose name matches
IsFirstMatch(centers, i, preference) == NameMatches(centers[i], preference) /\ \A j \in 1..(i - 1) : ~NameMatches(centers[j], preference)

\* the list of centers of the city of a context that has one
CityCenters(context) == get_service_centers_by_city(Get(context.city))

\* the intent carries a center preference, the context has a city after
\* the call, and a center of that city matches the preference
CenterFound == NonEmpty(Intent.center_preference) /\ NonEmpty(After.city) /\ \E i \in 1..Len(CityCenters(After)) : NameMatches(CityCenters(After)[i], Get(Intent.center_preference))

\* C27: after every update_context_state call whose intent carries a
\* center preference while the context has a city (its own or the one
\* adopted in the call), selected_center is the first center, in directory
\* order, of that city's list whose name contains the preference; when no
\* center of the city matches, when there is no city or no preference,
\* selected_center is what it was.  And in every context of the cache a
\* selected center is one of the centers of the context's city.
C27_FirstCenterOfCity ==
  /\ IsSome(call) =>
       IF CenterFound
       THEN \E i \in 1..Len(CityCenters(After)) : IsFirstMatch(CityCenters(After), i, Get(Intent.center_preference)) /\ After.selected_center = Some(CityCenters(After)[i])
       ELSE After.selected_center = Before.selected_center
  /\ \A u \in DOMAIN contexts :
       IsSome(contexts[u].selected_center) =>
         /\ NonEmpty(contexts[u].city)
         /\ \E i \in 1..Len(CityCenters(contexts[u])) : CityCenters(contexts[u])[i] = Get(contexts[u].selected_center)

\* a call whose intent names Riyadh and asks for NORTH, on a context
\* without a city, has selected Riyadh North, the second center of Riyadh
C27_Witness ==
  /\ IsSome(call)
  /\ ~NonEmpty(Before.city)
  /\ Intent.city = Some(T_Riyadh)
  /\ Intent.center_preference = Some(T_NORTH)
  /\ After.selected_center = Some(SERVICE_CENTERS[1][2])

\* the time label of the slot contains the preference or is contained in
\* it, case-insensitively
TimeMatches(slot, preference) == Contains(Lower(preference), Lower(slot.time)) \/ Contains(Lower(slot.time), Lower(preference))

\* the i-th slot of the catalog is the first one that matches
IsFirstSlot(i, preference) == TimeMatches(AVAILABLE_TIME_SLOTS[i], preference) /\ \A j \in 1..(i - 1) : ~TimeMatches(AVAILABLE_TIME_SLOTS[j], preference)

\* the intent carries a time preference that some slot matches
SlotFound == NonEmpty(Intent.time_preference) /\ \E i \in 1..Len(AVAILABLE_TIME_SLOTS) : TimeMatches(AVAILABLE_TIME_SLOTS[i], Get(Intent.time_preference))

\* C28: after every update_context_state call whose intent carries a time
\* preference, selected_time_slot is the first slot of the catalog whose
\* time label contains the preference or is contained in it; when no slot
\* matches or there is no preference it is what it was.  And the selected
\* slot of a context is never a slot that has an earlier slot with the
\* same time label before it in the catalog (10 AM on July 18th).
C28_FirstSlotOfCatalog ==
  /\ IsSome(call) =>
       IF SlotFound
       THEN \E i \in 1..Len(AVAILABLE_TIME_SLOTS) : IsFirstSlot(i, Get(Intent.time_preference)) /\ After.selected_time_slot = Some(AVAILABLE_TIME_SLOTS[i])
       ELSE After.selected_time_slot = Before.selected_time_slot
  /\ \A u \in DOMAIN contexts :
       IsSome(contexts[u].selected_time_slot) =>
         \E i \in 1..Len(AVAILABLE_TIME_SLOTS) :
           /\ AVAILABLE_TIME_SLOTS[i] = Get(contexts[u].selected_time_slot)
           /\ \A j \in 1..(i - 1) : AVAILABLE_TIME_SLOTS[j].time # AVAILABLE_TIME_SLOTS[i].time

\* a call whose intent asks for "at 10 am" has selected 10 AM on July 17th
\* on a context that had another slot
C28_Witness ==
  /\ IsSome(call)
  /\ Intent.time_preference = Some(T_at10am)
  /\ IsSome(Before.selected_time_slot) /\ Before.selected_time_slot # After.selected_time_slot
  /\ After.selected_time_slot = Some(AVAILABLE_TIME_SLOTS[1])

\* C29: after every update_context_state call with a booking intent the
\* state is decided by the first missing field of the context as the call
\* left it, the fields of the intent applied: WAITING_LOCATION without a
\* city, else WAITING_CENTER_SELECTION without a center, else
\* WAITING_TIME_SLOT without a time slot, else the state it had.
C29_BookingFirstMissing ==
  (IsSome(call) /\ Intent.intent = L_booking) =>
    After.state = IF ~NonEmpty(After.city) THEN "WAITING_LOCATION"
                  ELSE IF ~IsSome(After.selected_center) THEN "WAITING_CENTER_SELECTION"
                  ELSE IF ~IsSome(After.selected_time_slot) THEN "WAITING_TIME_SLOT"
                  ELSE Before.state

\* a booking intent that names Riyadh, on a context without a city, has
\* left the state WAITING_CENTER_SELECTION
C29_Witness ==
  /\ IsSome(call)
  /\ Intent.intent = L_booking
  /\ ~NonEmpty(Before.city)
  /\ Intent.city = Some(T_Riyadh)
  /\ After.state = "WAITING_CENTER_SELECTION"

\* center and slot are both set
BothSet(context) == IsSome(context.selected_center) /\ IsSome(context.selected_time_slot)

\* the step invokes the Recorder for the user
Recorded(u) == recorderCalls'[u] = recorderCalls[u] + 1

\* C30: every update_context_state call with a confirmation intent leaves
\* the state COMPLETED, whatever the state and the fields were, and records
\* the appointment only if center and slot are both set.  Every call, of
\* any intent, records exactly when it leaves the state COMPLETED with both
\* set on a context that was not saved; appointment_saved changes only by a
\* recording and is never set without both fields: so a confirmation
\* without them stays unsaved until the first later call that ends
\* COMPLETED with both set, and that call records it.
C30_ConfirmationCompletes ==
  [][\A u \in Users :
       (IsSome(call') /\ Get(call').context.user_id = u /\ u \in DOMAIN contexts') =>
         /\ Get(call').intent.intent = L_confirmation =>
              /\ contexts'[u].state = "COMPLETED"
              /\ Recorded(u) => BothSet(contexts'[u])
         /\ Recorded(u) <=> (contexts'[u].state = "COMPLETED" /\ BothSet(contexts'[u]) /\ ~Get(call').context.appointment_saved)
         /\ Recorded(u) => /\ IsSome(appointmentsFile')
                           /\ Len(Get(appointmentsFile')) = (IF IsSome(appointmentsFile) THEN Len(Get(appointmentsFile)) ELSE 1) + 1
                           /\ Get(appointmentsFile')[Len(Get(appointmentsFile'))] = AppointmentRow(contexts'[u], now)
         /\ ~Recorded(u) => appointmentsFile' = appointmentsFile
         /\ contexts'[u].appointment_saved = (Get(call').context.appointment_saved \/ Recorded(u))
         /\ contexts'[u].appointment_saved => BothSet(contexts'[u])]_vars

\* a context that a confirmation completed without center and slot has
\* been recorded by a later call that was not a confirmation
C30_Witness ==
  /\ IsSome(call)
  /\ Intent.intent = L_other
  /\ Before.state = "COMPLETED"
  /\ ~BothSet(Before)
  /\ ~Before.appointment_saved
  /\ After.appointment_saved
  /\ recorderCalls[Before.user_id] = 1
  /\ IsSome(appointmentsFile) /\ Len(Get(appointmentsFile)) = 2

\* C31: after every update_context_state call with a time_selection
\* intent the state is CONFIRMING_APPOINTMENT exactly when the context has
\* a selected center as the call left it, the center selected by the
\* call's own preference included and whether or not a slot matched; with
\* no center selected the state is the one before the call.
C31_TimeSelectionNeedsCenter ==
  (IsSome(call) /\ Intent.intent = L_time_selection) =>
    /\ IsSome(After.selected_center) => After.state = "CONFIRMING_APPOINTMENT"
    /\ ~IsSome(After.selected_center) => (After.state = Before.state /\ After.state # "CONFIRMING_APPOINTMENT")

\* a time selection that asks for NORTH and for noon, on a context with a
\* city and no center, has selected the center in the call, matched no
\* slot, and left CONFIRMING_APPOINTMENT
C31_Witness ==
  /\ IsSome(call)
  /\ Intent.intent = L_time_selection
  /\ Intent.center_preference = Some(T_NORTH)
  /\ Intent.time_preference = Some(T_noon)
  /\ ~IsSome(Before.selected_center)
  /\ IsSome(After.selected_center)
  /\ ~IsSome(After.selected_time_slot)
  /\ After.state = "CONFIRMING_APPOINTMENT"

\* C32: after every update_context_state call with a location intent the
\* state is WAITING_CENTER_SELECTION, and after every call with a
\* center_selection intent it is WAITING_TIME_SLOT, whatever the state
\* was, with or without a city and with or without a selected center.
C32_LocationAndCenterAdvance ==
  IsSome(call) =>
    /\ Intent.intent = L_location => After.state = "WAITING_CENTER_SELECTION"
    /\ Intent.intent = L_center_selection => After.state = "WAITING_TIME_SLOT"

\* a center selection whose preference matches nothing, on a completed
\* context without a city, has left WAITING_TIME_SLOT with no center
C32_Witness ==
  /\ IsSome(call)
  /\ Intent.intent = L_center_selection
  /\ Intent.center_preference = Some(T_west)
  /\ Before.state = "COMPLETED"
  /\ ~NonEmpty(After.city)
  /\ ~IsSome(After.selected_center)
  /\ After.state = "WAITING_TIME_SLOT"

\* C33: after every update_context_state call with a greeting intent the
\* state is WAITING_CENTER_SELECTION when the call started in INITIAL and
\* the context has a city as the call left it (the city of the intent
\* included); in every other case it is the state before the call.
C33_GreetingOnlyFromInitial ==
  (IsSome(call) /\ Intent.intent = L_greeting) =>
    After.state = IF Before.state = "INITIAL" /\ NonEmpty(After.city) THEN "WAITING_CENTER_SELECTION" ELSE Before.state

\* a greeting that names Riyadh, on an initial context without a city, has
\* left WAITING_CENTER_SELECTION
C33_Witness ==
  /\ IsSome(call)
  /\ Intent.intent = L_greeting
  /\ Intent.city = Some(T_Riyadh)
  /\ Before.state = "INITIAL"
  /\ ~NonEmpty(Before.city)
  /\ After.state = "WAITING_CENTER_SELECTION"

\* C34: at the end of every update_context_state call, whichever intent it
\* had, a context in state COMPLETED with center and slot both set has
\* appointment_saved set.
C34_CompletedIsSaved ==
  \A u \in DOMAIN contexts :
    (contexts[u].state = "COMPLETED" /\ BothSet(contexts[u])) => contexts[u].appointment_saved

\* a booking intent that brought city, center and slot to a completed,
\* unsaved context has left it completed and saved
C34_Witness ==
  /\ IsSome(call)
  /\ Intent.intent = L_booking
  /\ Before.state = "COMPLETED"
  /\ ~BothSet(Before)
  /\ ~Before.appointment_saved
  /\ After.state = "COMPLETED"
  /\ BothSet(After)
  /\ After.appointment_saved

\* C35: in every context of the cache, a state of WAITING_CENTER_SELECTION,
\* WAITING_TIME_SLOT, CONFIRMING_APPOINTMENT or COMPLETED comes with a city.
C35_CityBeforeLaterStates ==
  \A u \in DOMAIN contexts :
    contexts[u].state \in {"WAITING_CENTER_SELECTION", "WAITING_TIME_SLOT", "CONFIRMING_APPOINTMENT", "COMPLETED"} => NonEmpty(contexts[u].city)

\* the latest row of the log written for the user
LatestRow(u) == Get(appointmentsFile)[CHOOSE i \in 2..Len(Get(appointmentsFile)) : Get(appointmentsFile)[i].user_id = u /\ \A j \in (i + 1)..Len(Get(appointmentsFile)) : Get(appointmentsFile)[j].user_id # u]

\* C36: a context whose appointment was recorded holds the center and the
\* slot of its row in the log: center, date and time of the row are those
\* of selected_center and selected_time_slot, in every later state.
C36_RecordedFieldsKept ==
  \A u \in DOMAIN contexts :
    (contexts[u].appointment_saved /\ recorderCalls[u] = 1 /\ IsSome(appointmentsFile)) =>
      /\ LatestRow(u).center = CenterStr(Get(contexts[u].selected_center))
      /\ LatestRow(u).date = Get(contexts[u].selected_time_slot).date
      /\ LatestRow(u).time = Get(contexts[u].selected_time_slot).time

\* the step is a process_message call that returned the fixed apology
IsFailedTurn == IsTurn /\ IsSome(reply') /\ Get(reply').kind = "apology"

\* C37: a process_message call that returns the fixed apology leaves the
\* user's context (state, city, center, slot, appointment_saved) as the
\* turn found it, writes no appointment row and appends no history entry.
C37_FailedTurnNoEffect ==
  [][\A u \in Users :
       IsFailedTurn =>
         /\ u \in DOMAIN contexts' => Core(contexts'[u]) = Core(TurnBefore(u))
         /\ appointmentsFile' = appointmentsFile
         /\ historyFiles' = historyFiles]_vars

\* the part of it that holds: no row and no history entry
FailedTurnWritesNothing ==
  [][IsFailedTurn => (appointmentsFile' = appointmentsFile /\ historyFiles' = historyFiles /\ recorderCalls' = recorderCalls)]_vars

\* C38: the Recorder is invoked at most once for a context, also when
\* turns of the same user run concurrently.
C38_RecordedOnceConcurrently == \A u \in AllUsers : recorderCalls[u] <= 1

\* C39: while every intent comes from the keyword fallback, no context is
\* in COMPLETED or CONFIRMING_APPOINTMENT, no context has a selected
\* center, the Recorder was never invoked and there is no appointment log.
C39_FallbackNeverCompletes ==
  /\ \A u \in DOMAIN contexts :
       /\ contexts[u].state \notin {"COMPLETED", "CONFIRMING_APPOINTMENT"}
       /\ ~IsSome(contexts[u].selected_center)
  /\ \A u \in Users : recorderCalls[u] = 0
  /\ appointmentsFile = None

\* after three turns or more on the fallback a context has its city and a
\* time slot, and waits for a center
C39_Witness ==
  /\ turns >= 3
  /\ \E u \in DOMAIN contexts :
       /\ NonEmpty(contexts[u].city)
       /\ IsSome(contexts[u].selected_time_slot)
       /\ contexts[u].state = "WAITING_CENTER_SELECTION"

\* C40: get_recent_history(u, limit) returns at most limit entries, for
\* every limit >= 0: what the latest call returned is no longer than the
\* limit it was given.
C40_AtMostLimit ==
  (IsSome(call) /\ IsSome(returned)) => Len(Get(returned)) <= Get(call).limit

\* the part of it that holds: with a limit above 0 the call returns the
\* last min(limit, stored) entries in arrival order, and with no history
\* it returns the empty sequence
RecentWithPositiveLimit ==
  [][\A ext \in ExternalIds, limit \in RecentLimits \ {0} :
       GetRecentHistory(ext, limit) =>
         /\ IsSome(returned')
         /\ Len(Get(returned')) = Min(limit, Len(arrivals[CleanUserId(ext)]))
         /\ \A i \in 1..Len(Get(returned')) :
              Get(returned')[i] = HistoryObject(arrivals[CleanUserId(ext)][Len(arrivals[CleanUserId(ext)]) - Len(Get(returned')) + i])]_vars
====
